---- MODULE Spec2Model ----
(***************************************************************************)
(* Model of the conversion core of WinApp-VideoPlayer-Converter:           *)
(*   - SequenceManager  (video_converter/core/sequence_manager.py)         *)
(*   - EncoderDetector  (video_converter/core/encoder_detector.py)         *)
(*   - VideoConverter   (video_converter/core/converter.py)                *)
(* Each component has its own specification; the variables of the other    *)
(* components stay at their initial values.                                *)
(***************************************************************************)
EXTENDS Integers, Sequences, FiniteSets, TLC

(***************************************************************************)
(* Bounds of the model.                                                    *)
(***************************************************************************)
NThreads == 2
MaxCalls == 3
MaxResets == 1
MaxConstructs == 2
MaxDetects == 3

Threads == 1..NThreads
\* Two SequenceManager objects can exist in one process: each VideoConverter
\* built without a sequence_manager argument creates its own.
Managers == {1, 2}
\* threading.Lock(): the value of lock[m] when no thread holds it
Free == 0

(***************************************************************************)
(* Text of the sequence file: a sequence of one-character strings.         *)
(***************************************************************************)
Digits == <<"0", "1", "2", "3", "4", "5", "6", "7", "8", "9">>
IsDigit(c) == \E i \in 1..10 : Digits[i] = c
DigitVal(c) == (CHOOSE i \in 1..10 : Digits[i] = c) - 1
IsSpace(c) == c \in {" ", "\n", "\t"}

\* str(n) for n >= 0
RECURSIVE NatToStr(_)
NatToStr(n) ==
    IF n < 10 THEN <<Digits[n + 1]>>
    ELSE NatToStr(n \div 10) \o <<Digits[(n % 10) + 1]>>

\* str(self.current_sequence)
IntToStr(n) == IF n < 0 THEN <<"-">> \o NatToStr(-n) ELSE NatToStr(n)

RECURSIVE LStrip(_)
LStrip(s) == IF s # <<>> /\ IsSpace(Head(s)) THEN LStrip(Tail(s)) ELSE s
RECURSIVE RStrip(_)
RStrip(s) ==
    IF s # <<>> /\ IsSpace(s[Len(s)]) THEN RStrip(SubSeq(s, 1, Len(s) - 1)) ELSE s
\* f.read().strip()
Strip(s) == RStrip(LStrip(s))

RECURSIVE DigitsValue(_, _)
DigitsValue(s, acc) ==
    IF s = <<>> THEN acc
    ELSE IF Head(s) = "_" THEN DigitsValue(Tail(s), acc)
    ELSE DigitsValue(Tail(s), acc * 10 + DigitVal(Head(s)))

\* The digit part int() accepts: digits, single underscores between digits.
WellFormedDigits(s) ==
    /\ s # <<>>
    /\ IsDigit(s[1])
    /\ IsDigit(s[Len(s)])
    /\ \A i \in 1..Len(s) :
          /\ IsDigit(s[i]) \/ s[i] = "_"
          /\ s[i] = "_" => (i < Len(s) /\ s[i + 1] # "_")

\* int(content): surrounding whitespace ignored, optional sign, decimal digits.
\* ok = FALSE stands for ValueError.
ParseInt(s) ==
    LET t == Strip(s)
        signed == t # <<>> /\ Head(t) \in {"+", "-"}
        body == IF signed THEN Tail(t) ELSE t
    IN  IF WellFormedDigits(body)
        THEN [ok |-> TRUE,
              val |-> IF signed /\ Head(t) = "-"
                      THEN 0 - DigitsValue(body, 0) ELSE DigitsValue(body, 0)]
        ELSE [ok |-> FALSE, val |-> 0]

(***************************************************************************)
(* Python exception classes that the file operations raise.                *)
(***************************************************************************)
IsInstance(exc, cls) ==
    \/ exc = cls
    \/ cls = "ValueError" /\ exc = "UnicodeDecodeError"
    \/ cls = "OSError" /\ exc \in {"PermissionError", "FileNotFoundError"}

\* Outcomes of open()/read() on an existing sequence file.
ReadOutcomes == {"ok", "PermissionError", "UnicodeDecodeError"}

NoText == <<>>
AbsentFile == [exists |-> FALSE, text |-> NoText]
FileOf(t) == [exists |-> TRUE, text |-> t]

(***************************************************************************)
(* State.                                                                  *)
(***************************************************************************)
VARIABLES
    file,      \* the sequence file on disk: [exists, text]
    alive,     \* alive[m]: SequenceManager m is constructed in the running process
    cur,       \* cur[m]: self.current_sequence
    lock,      \* lock[m]: the thread holding self.lock, or Free
    mgr,       \* mgr[t]: the SequenceManager thread t calls
    pc,        \* pc[t]: position of thread t inside its call
    op,        \* op[t]: the method thread t is executing
    seq,       \* seq[t]: the local seq of get_next
    arg,       \* arg[t]: start_number of reset
    hist       \* history of the run (observations, not read by the program)

seqVars == <<file, alive, cur, lock, mgr, pc, op, seq, arg, hist>>

VARIABLES
    hostEncoders,       \* the encoders the host's ffmpeg lists
    ffmpegAvailable,    \* self._ffmpeg_available: "None", "True" or "False"
    availableEncoders,  \* self._available_encoders: [set, list]
    dstate,             \* detect_available_encoders: "idle", "running", "done", "raised"
    dstep,              \* the probe detect_available_encoders is at
    dsub,               \* where that probe is: "ffmpeg", "query" or "driver"
    encoders,           \* its local list
    dresult,            \* what the last call gave its caller
    dcalls,             \* calls of detect_available_encoders made so far
    dcaller,            \* the method the caller entered: "detect" or "best"
    dhist               \* history of the detector (observations)

encVars == <<hostEncoders, ffmpegAvailable, availableEncoders, dstate, dstep, dsub,
             encoders, dresult, dcalls, dcaller, dhist>>

VARIABLES
    vc,            \* the VideoConverter's fields set by __init__
    ffmpegFiles,   \* which of the FFMPEG_PATHS files exist on the host
    command,       \* the list the last _build_ffmpeg_command returned
    chist          \* history of the builder (observations)

cmdVars == <<vc, ffmpegFiles, command, chist>>

VARIABLES
    stopEvent,     \* self._stop_event is set
    lastError,     \* self._last_error
    fileCb,        \* self._file_progress_callback: "unset", "None" or "sink"
    cpc,           \* position of the worker thread inside convert()
    creq,          \* the arguments of the convert() call in progress
    info,          \* its video_info
    line,          \* its local line, and the progress parsed from it
    caught,        \* the exception being handled or raised
    cret,          \* how the last convert() ended: what it returned or raised
    deadline,      \* the time at which process.communicate(timeout) gives up
    proc,          \* the transcoder process of the last Popen
    pipe,          \* the stderr lines it has written and convert() has not read
    sources,       \* the input files on disk
    outputs,       \* the files at the output paths
    clock,         \* time since the convert() call started
    orphans,       \* processes of earlier sessions that are still alive
    rhist          \* history of the session (observations)

runVars == <<stopEvent, lastError, fileCb, cpc, creq, info, line, caught, cret, deadline,
             proc, pipe, sources, outputs, clock, orphans, rhist>>

VARIABLES
    bpc,           \* position of the worker thread inside convert_batch()
    batch,         \* the arguments of the convert_batch() call
    bidx,          \* the position in input_files of the file being processed (from 1)
    success,       \* its local success
    failed,        \* its local failed
    failedFiles,   \* its local failed_files
    bret,          \* how the last convert_batch() ended: its result, or what it raised
    bhist          \* history of the batch (observations)

batVars == <<bpc, batch, bidx, success, failed, failedFiles, bret, bhist>>

\* What the actions of one component leave alone: the other components.
notSeq == <<encVars, cmdVars, runVars, batVars>>
notEnc == <<seqVars, cmdVars, runVars, batVars>>
notCmd == <<seqVars, encVars, runVars, batVars>>
notRun == <<seqVars, encVars, batVars>>

\* hist fields:
\*   ncalls      get_next calls started
\*   nresets     reset calls started
\*   nctor[m]    constructions of m so far (its incarnation number)
\*   ctor[m]     what the last construction of m saw, and whether it raised
\*   ep[m]       resets applied to m since its construction
\*   runs[m]     the start value of each epoch of m: the constructed value,
\*               then the start_number of each reset applied
\*   taken[m]    get_next critical sections entered since construction
\*   callEp[t]   ep[mgr[t]] when t read the counter
\*   first[t]    t's call is the first get_next since construction
\*   rets        the values returned: <<m, incarnation, epoch, value>>
\*   dups        entries of rets returned more than once
\*   peek[m]     the last get_current result p and the get_next calls since
\*   saveFailed  some write to the file raised IOError

NoPeek == [on |-> FALSE, p |-> 0, n |-> 0, vals |-> {}]
NoCtor == [file |-> AbsentFile, outcome |-> "ok", raised |-> FALSE]

InitHist ==
    [ncalls |-> 0, nresets |-> 0,
     nctor |-> [m \in Managers |-> 0],
     ctor |-> [m \in Managers |-> NoCtor],
     ep |-> [m \in Managers |-> 0],
     runs |-> [m \in Managers |-> <<>>],
     taken |-> [m \in Managers |-> 0],
     callEp |-> [t \in Threads |-> 0],
     first |-> [t \in Threads |-> FALSE],
     rets |-> {}, dups |-> {},
     peek |-> [m \in Managers |-> NoPeek],
     saveFailed |-> FALSE]

\* No SequenceManager constructed yet; the file holds f; threads use managers by u.
SeqStart(f, u) ==
    /\ file = f
    /\ alive = [m \in Managers |-> FALSE]
    /\ cur = [m \in Managers |-> 0]
    /\ lock = [m \in Managers |-> Free]
    /\ mgr = u
    /\ pc = [t \in Threads |-> "idle"]
    /\ op = [t \in Threads |-> "none"]
    /\ seq = [t \in Threads |-> 0]
    /\ arg = [t \in Threads |-> 0]
    /\ hist = InitHist

(***************************************************************************)
(* SequenceManager._load_sequence and __init__                             *)
(***************************************************************************)
\* except (ValueError, IOError)
LoadCatchesValueErrorOnly(exc) == IsInstance(exc, "ValueError")
LoadCatches(exc) == IsInstance(exc, "ValueError") \/ IsInstance(exc, "OSError")

\* _load_sequence with the file f, open()/read() ending in outcome.
\* Result: the exception that leaves the method ("none": it returned val).
LoadSequence(f, outcome) ==
    LET content == Strip(f.text)
        parsed == ParseInt(content)
        raised == IF ~f.exists THEN "none"
                  ELSE IF outcome # "ok" THEN outcome
                  ELSE IF content # <<>> /\ ~parsed.ok THEN "ValueError"
                  ELSE "none"
    IN  IF raised # "none"
        THEN IF LoadCatches(raised) THEN [exc |-> "none", val |-> 1]
             ELSE [exc |-> raised, val |-> 0]
        ELSE IF f.exists /\ content # <<>>
             THEN [exc |-> "none", val |-> parsed.val]
             ELSE [exc |-> "none", val |-> 1]

\* SequenceManager(sequence_file) in a process where m does not exist yet.
Construct(m, outcome) ==
    LET r == LoadSequence(file, outcome) IN
    /\ ~alive[m]
    /\ hist.nctor[m] < MaxConstructs
    /\ alive' = [alive EXCEPT ![m] = (r.exc = "none")]
    /\ cur' = [cur EXCEPT ![m] = r.val]
    /\ lock' = [lock EXCEPT ![m] = Free]
    /\ hist' = [hist EXCEPT !.nctor[m] = @ + 1,
                            !.ctor[m] = [file |-> file, outcome |-> outcome,
                                         raised |-> (r.exc # "none")],
                            !.ep[m] = 0, !.runs[m] = <<r.val>>, !.taken[m] = 0,
                            !.peek[m] = NoPeek]
    /\ UNCHANGED <<file, mgr, pc, op, seq, arg>>
    /\ UNCHANGED notSeq

(***************************************************************************)
(* SequenceManager.get_next                                                *)
(***************************************************************************)
GetNextCall(t) ==
    /\ pc[t] = "idle"
    /\ mgr[t] \in Managers
    /\ alive[mgr[t]]
    /\ hist.ncalls < MaxCalls
    /\ pc' = [pc EXCEPT ![t] = "gn_lock"]
    /\ op' = [op EXCEPT ![t] = "get_next"]
    /\ hist' = [hist EXCEPT !.ncalls = @ + 1]
    /\ UNCHANGED <<file, alive, cur, lock, mgr, seq, arg>>
    /\ UNCHANGED notSeq

\* with self.lock:
GetNextAcquireUnlocked(t) ==
    /\ pc[t] = "gn_lock"
    /\ lock' = [lock EXCEPT ![mgr[t]] = t]
    /\ pc' = [pc EXCEPT ![t] = "gn_read"]
    /\ UNCHANGED <<file, alive, cur, mgr, op, seq, arg, hist>>
    /\ UNCHANGED notSeq
GetNextAcquire(t) ==
    /\ pc[t] = "gn_lock"
    /\ lock[mgr[t]] = Free
    /\ lock' = [lock EXCEPT ![mgr[t]] = t]
    /\ pc' = [pc EXCEPT ![t] = "gn_read"]
    /\ UNCHANGED <<file, alive, cur, mgr, op, seq, arg, hist>>
    /\ UNCHANGED notSeq

\* The observations made when a get_next reads the counter value v of m.
NoteRead(t, m, v) ==
    [hist EXCEPT !.callEp[t] = hist.ep[m],
                 !.first[t] = (hist.taken[m] = 0 /\ hist.ep[m] = 0),
                 !.taken[m] = @ + 1,
                 !.peek[m] = IF @.on
                             THEN [@ EXCEPT !.n = @ + 1, !.vals = @ \cup {v}]
                             ELSE @]

\* seq = self.current_sequence
GetNextReadAfterIncrement(t) ==
    /\ pc[t] = "gn_read"
    /\ seq' = [seq EXCEPT ![t] = cur[mgr[t]] + 1]
    /\ pc' = [pc EXCEPT ![t] = "gn_inc"]
    /\ hist' = NoteRead(t, mgr[t], cur[mgr[t]] + 1)
    /\ UNCHANGED <<file, alive, cur, lock, mgr, op, arg>>
    /\ UNCHANGED notSeq
GetNextRead(t) ==
    /\ pc[t] = "gn_read"
    /\ seq' = [seq EXCEPT ![t] = cur[mgr[t]]]
    /\ pc' = [pc EXCEPT ![t] = "gn_inc"]
    /\ hist' = NoteRead(t, mgr[t], cur[mgr[t]])
    /\ UNCHANGED <<file, alive, cur, lock, mgr, op, arg>>
    /\ UNCHANGED notSeq

\* self.current_sequence += 1
GetNextIncrement(t) ==
    /\ pc[t] = "gn_inc"
    /\ cur' = [cur EXCEPT ![mgr[t]] = @ + 1]
    /\ pc' = [pc EXCEPT ![t] = "save_open"]
    /\ UNCHANGED <<file, alive, lock, mgr, op, seq, arg, hist>>
    /\ UNCHANGED notSeq

\* return seq, leaving the with block
GetNextReturn(t) ==
    LET r == <<mgr[t], hist.nctor[mgr[t]], hist.callEp[t], seq[t]>> IN
    /\ pc[t] = "ret"
    /\ op[t] = "get_next"
    /\ lock' = [lock EXCEPT ![mgr[t]] = Free]
    /\ pc' = [pc EXCEPT ![t] = "idle"]
    /\ op' = [op EXCEPT ![t] = "none"]
    /\ hist' = [hist EXCEPT !.rets = @ \cup {r},
                            !.dups = IF r \in hist.rets THEN @ \cup {r} ELSE @]
    /\ UNCHANGED <<file, alive, cur, mgr, seq, arg>>
    /\ UNCHANGED notSeq

(***************************************************************************)
(* SequenceManager._save_sequence, called by get_next and reset            *)
(***************************************************************************)
\* open(self.sequence_file, "w") succeeds: the file exists and is empty
SaveOpen(t) ==
    /\ pc[t] = "save_open"
    /\ file' = FileOf(NoText)
    /\ pc' = [pc EXCEPT ![t] = "save_write"]
    /\ UNCHANGED <<alive, cur, lock, mgr, op, seq, arg, hist>>
    /\ UNCHANGED notSeq

\* open(..., "w") raises IOError: caught, a warning is printed
SaveOpenFails(t) ==
    /\ pc[t] = "save_open"
    /\ pc' = [pc EXCEPT ![t] = "ret"]
    /\ hist' = [hist EXCEPT !.saveFailed = TRUE]
    /\ UNCHANGED <<file, alive, cur, lock, mgr, op, seq, arg>>
    /\ UNCHANGED notSeq

\* f.write(str(self.current_sequence)) and the close of the with block
SaveWriteReturnedValue(t) ==
    /\ pc[t] = "save_write"
    /\ file' = FileOf(IntToStr(seq[t]))
    /\ pc' = [pc EXCEPT ![t] = "ret"]
    /\ UNCHANGED <<alive, cur, lock, mgr, op, seq, arg, hist>>
    /\ UNCHANGED notSeq
SaveWrite(t) ==
    /\ pc[t] = "save_write"
    /\ file' = FileOf(IntToStr(cur[mgr[t]]))
    /\ pc' = [pc EXCEPT ![t] = "ret"]
    /\ UNCHANGED <<alive, cur, lock, mgr, op, seq, arg, hist>>
    /\ UNCHANGED notSeq

\* the write or the flush raises IOError: caught, the file stays truncated
SaveWriteFails(t) ==
    /\ pc[t] = "save_write"
    /\ pc' = [pc EXCEPT ![t] = "ret"]
    /\ hist' = [hist EXCEPT !.saveFailed = TRUE]
    /\ UNCHANGED <<file, alive, cur, lock, mgr, op, seq, arg>>
    /\ UNCHANGED notSeq

(***************************************************************************)
(* SequenceManager.reset                                                   *)
(***************************************************************************)
ResetValues == {1, 2}

ResetCall(t, s) ==
    /\ pc[t] = "idle"
    /\ mgr[t] \in Managers
    /\ alive[mgr[t]]
    /\ hist.nresets < MaxResets
    /\ pc' = [pc EXCEPT ![t] = "rs_lock"]
    /\ op' = [op EXCEPT ![t] = "reset"]
    /\ arg' = [arg EXCEPT ![t] = s]
    /\ hist' = [hist EXCEPT !.nresets = @ + 1]
    /\ UNCHANGED <<file, alive, cur, lock, mgr, seq>>
    /\ UNCHANGED notSeq

\* with self.lock:
ResetAcquireUnlocked(t) ==
    /\ pc[t] = "rs_lock"
    /\ lock' = [lock EXCEPT ![mgr[t]] = t]
    /\ pc' = [pc EXCEPT ![t] = "rs_set"]
    /\ UNCHANGED <<file, alive, cur, mgr, op, seq, arg, hist>>
    /\ UNCHANGED notSeq
ResetAcquire(t) ==
    /\ pc[t] = "rs_lock"
    /\ lock[mgr[t]] = Free
    /\ lock' = [lock EXCEPT ![mgr[t]] = t]
    /\ pc' = [pc EXCEPT ![t] = "rs_set"]
    /\ UNCHANGED <<file, alive, cur, mgr, op, seq, arg, hist>>
    /\ UNCHANGED notSeq

\* self.current_sequence = start_number
ResetAssign(t) ==
    /\ pc[t] = "rs_set"
    /\ cur' = [cur EXCEPT ![mgr[t]] = arg[t]]
    /\ pc' = [pc EXCEPT ![t] = "save_open"]
    /\ hist' = [hist EXCEPT !.ep[mgr[t]] = @ + 1,
                            !.runs[mgr[t]] = Append(@, arg[t]),
                            !.peek[mgr[t]] = NoPeek]
    /\ UNCHANGED <<file, alive, lock, mgr, op, seq, arg>>
    /\ UNCHANGED notSeq

\* leaving the with block
ResetReturn(t) ==
    /\ pc[t] = "ret"
    /\ op[t] = "reset"
    /\ lock' = [lock EXCEPT ![mgr[t]] = Free]
    /\ pc' = [pc EXCEPT ![t] = "idle"]
    /\ op' = [op EXCEPT ![t] = "none"]
    /\ UNCHANGED <<file, alive, cur, mgr, seq, arg, hist>>
    /\ UNCHANGED notSeq

(***************************************************************************)
(* SequenceManager.get_current                                             *)
(***************************************************************************)
\* with self.lock: return self.current_sequence
GetCurrentResult(m) == cur[m]

\* The whole call: it holds the lock only to read one attribute.
GetCurrent(t) ==
    /\ pc[t] = "idle"
    /\ mgr[t] \in Managers
    /\ alive[mgr[t]]
    /\ lock[mgr[t]] = Free
    /\ hist' = [hist EXCEPT !.peek[mgr[t]] =
                    [on |-> TRUE, p |-> GetCurrentResult(mgr[t]), n |-> 0, vals |-> {}]]
    /\ UNCHANGED <<file, alive, cur, lock, mgr, pc, op, seq, arg>>
    /\ UNCHANGED notSeq

(***************************************************************************)
(* The process dies (crash, kill, power loss) at any point and is started  *)
(* again: every object is gone, the file stays as it is.                   *)
(***************************************************************************)
Crash ==
    /\ \E m \in Managers : alive[m]
    /\ alive' = [m \in Managers |-> FALSE]
    /\ lock' = [m \in Managers |-> Free]
    /\ cur' = [m \in Managers |-> 0]
    /\ pc' = [t \in Threads |-> "idle"]
    /\ op' = [t \in Threads |-> "none"]
    /\ UNCHANGED <<file, mgr, seq, arg, hist>>
    /\ UNCHANGED notSeq

(***************************************************************************)
(* EncoderDetector                                                         *)
(***************************************************************************)
\* The encoder names `ffmpeg -hide_banner -encoders` can list on a host.
EncoderTokens ==
    {"hevc_nvenc", "hevc_amf", "hevc_qsv", "h264_nvenc", "h264_qsv", "h264_amf",
     "libx265", "libx264", "libx264rgb"}

TextOf(name) ==
    CASE name = "hevc_nvenc" -> <<"h", "e", "v", "c", "_", "n", "v", "e", "n", "c">>
      [] name = "hevc_amf" -> <<"h", "e", "v", "c", "_", "a", "m", "f">>
      [] name = "hevc_qsv" -> <<"h", "e", "v", "c", "_", "q", "s", "v">>
      [] name = "h264_nvenc" -> <<"h", "2", "6", "4", "_", "n", "v", "e", "n", "c">>
      [] name = "h264_qsv" -> <<"h", "2", "6", "4", "_", "q", "s", "v">>
      [] name = "h264_amf" -> <<"h", "2", "6", "4", "_", "a", "m", "f">>
      [] name = "libx265" -> <<"l", "i", "b", "x", "2", "6", "5">>
      [] name = "libx264" -> <<"l", "i", "b", "x", "2", "6", "4">>
      [] name = "libx264rgb" -> <<"l", "i", "b", "x", "2", "6", "4", "r", "g", "b">>

\* needle in hay, on Python strings
IsSubstring(needle, hay) ==
    \E i \in 0..(Len(hay) - Len(needle)) : SubSeq(hay, i + 1, i + Len(needle)) = needle

\* encoder_name in result.stdout, stdout listing the encoders of the set listed
InStdout(name, listed) ==
    \E tok \in listed : IsSubstring(TextOf(name), TextOf(tok))

\* Outcomes of subprocess.run([ffmpeg, "-version"])
VersionOutcomes == {"ok", "nonzero", "FileNotFoundError", "TimeoutExpired", "PermissionError"}
\* Outcomes of subprocess.run([ffmpeg, "-hide_banner", "-encoders"])
QueryOutcomes == {"ok", "nonzero", "TimeoutExpired", "UnicodeDecodeError", "FileNotFoundError"}
\* Outcomes of the nvidia-smi driver query: how it ended, and its stdout
DriverOutcomes ==
    {[kind |-> "nonzero", out |-> <<>>],
     [kind |-> "FileNotFoundError", out |-> <<>>],
     [kind |-> "TimeoutExpired", out |-> <<>>],
     [kind |-> "ok", out |-> <<"5", "6", "9", ".", "9", "9", "\n">>],
     [kind |-> "ok", out |-> <<"5", "7", "0", ".", "0", "\n">>],
     [kind |-> "ok", out |-> <<"5", "7", "1", ".", "1", "2", ".", "3", "\n">>],
     [kind |-> "ok", out |-> <<"5", "7", "0", "\n">>],
     [kind |-> "ok", out |-> <<>>]}

RECURSIVE LeadingDigits(_)
LeadingDigits(s) ==
    IF s # <<>> /\ IsDigit(Head(s)) THEN <<Head(s)>> \o LeadingDigits(Tail(s)) ELSE <<>>

\* re.match(r'(\d+)\.(\d+)', driver_version)
DriverMatch(s) ==
    LET g1 == LeadingDigits(s)
        rest == SubSeq(s, Len(g1) + 1, Len(s))
        g2 == IF rest # <<>> /\ Head(rest) = "." THEN LeadingDigits(Tail(rest)) ELSE <<>>
    IN  IF g1 # <<>> /\ g2 # <<>>
        THEN [matched |-> TRUE, major |-> DigitsValue(g1, 0), minor |-> DigitsValue(g2, 0)]
        ELSE [matched |-> FALSE, major |-> 0, minor |-> 0]

\* NVENC needs driver 570.0 or newer
MinDriverMajor == 570

\* check_nvidia_driver(): the first component of its result
CheckNvidiaDriver(o) ==
    IF o.kind # "ok" THEN FALSE
    ELSE LET m == DriverMatch(Strip(o.out)) IN
         IF ~m.matched THEN TRUE
         ELSE IF m.major > MinDriverMajor THEN TRUE
         ELSE IF m.major = MinDriverMajor /\ m.minor >= 0 THEN TRUE
         ELSE FALSE

NoResult ==
    [kind |-> "none", list |-> <<>>, exc |-> "none", same |-> FALSE, name |-> "",
     flag |-> FALSE]

\* dhist fields:
\*   first       the list of the first detect_available_encoders() that returned
\*   laterLists  the lists later detect_available_encoders() calls returned
\*   laterBest   the names later get_best_encoder() calls returned
\*   spawns      subprocesses started after the first call returned
\*   mutated     a caller changed a list some call had returned to it
\*   changed     times the host's encoder availability changed
\*   failedVersion     -version checks that ended with the binary missing, a
\*                     non-zero exit or a timeout
\*   queriedAfterFail  an encoder-list or driver query was started with
\*                     self._ffmpeg_available False
\*   driver            the outcome of the last driver query after which an
\*                     NVENC encoder was taken as available
NoDriver == [kind |-> "none", out |-> <<>>]
InitDHist ==
    [first |-> [set |-> FALSE, list |-> <<>>],
     laterLists |-> {}, laterBest |-> {},
     spawns |-> 0, mutated |-> FALSE, changed |-> 0,
     failedVersion |-> 0, queriedAfterFail |-> FALSE, driver |-> NoDriver]

EncStart(h) ==
    /\ hostEncoders = h
    /\ ffmpegAvailable = "None"
    /\ availableEncoders = [set |-> FALSE, list |-> <<>>]
    /\ dstate = "idle"
    /\ dstep = 0
    /\ dsub = "ffmpeg"
    /\ encoders = <<>>
    /\ dresult = NoResult
    /\ dcalls = 0
    /\ dcaller = "detect"
    /\ dhist = InitDHist

\* The probes of detect_available_encoders, in the order the code runs them:
\* _check_hevc_nvenc, _check_hevc_amf, _check_hevc_qsv, _check_nvenc, _check_qsv,
\* _check_amf, _check_encoder("libx265"), _check_encoder("libx264")
ProbeOrder ==
    <<"hevc_nvenc", "hevc_amf", "hevc_qsv", "h264_nvenc", "h264_qsv", "h264_amf",
      "libx265", "libx264">>

\* The probes that go on to check_nvidia_driver(): _check_nvenc, _check_hevc_nvenc
NvencNames == {"hevc_nvenc", "h264_nvenc"}

Probing == dstate = "running" /\ dstep \in 1..Len(ProbeOrder)

\* check_ffmpeg(), its subprocess.run ending in vo: the new self._ffmpeg_available,
\* "None" when the exception leaves the method
CheckFfmpeg(vo) ==
    IF vo = "ok" THEN "True"
    ELSE IF vo \in {"nonzero", "FileNotFoundError", "TimeoutExpired"} THEN "False"
    ELSE "None"

\* _check_encoder(name), its subprocess.run ending in qo: "yes", "no", or "raise"
CheckEncoder(name, qo) ==
    IF qo = "ok" THEN (IF InStdout(name, hostEncoders) THEN "yes" ELSE "no")
    ELSE IF qo \in {"nonzero", "TimeoutExpired", "UnicodeDecodeError"} THEN "no"
    ELSE "raise"

\* subprocess.run(...) starts a process
Spawned == [dhist EXCEPT !.spawns = IF dhist.first.set THEN @ + 1 ELSE @]
\* ... the -version check, ending in vo
SpawnedVersion(vo) ==
    [Spawned EXCEPT !.failedVersion = IF CheckFfmpeg(vo) = "False" THEN @ + 1 ELSE @]
\* ... an encoder-list query or a driver query
SpawnedQuery ==
    [Spawned EXCEPT !.queriedAfterFail = @ \/ ffmpegAvailable = "False"]

\* The probe at dstep ends with the answer ok: if ok, encoders.append(name)
ProbeDone(ok) ==
    /\ encoders' = IF ok THEN Append(encoders, ProbeOrder[dstep]) ELSE encoders
    /\ dstep' = dstep + 1
    /\ dsub' = "ffmpeg"
    /\ UNCHANGED <<dstate, dresult>>

\* An exception leaves detect_available_encoders (and get_best_encoder)
ProbeRaises(exc) ==
    /\ dstate' = "raised"
    /\ dresult' = [NoResult EXCEPT !.kind = "exc", !.exc = exc]
    /\ UNCHANGED <<dstep, dsub, encoders>>

\* list.copy(): a new list object with the same elements
ListAlias(l) == [NoResult EXCEPT !.kind = "list", !.list = l, !.same = TRUE]
ListCopy(l) == [NoResult EXCEPT !.kind = "list", !.list = l, !.same = FALSE]

\* get_best_encoder(): encoders[0] if encoders else "libx264"
BestEncoder(list) == IF list # <<>> THEN list[1] ELSE "libx264"

\* What the caller of the method gets when detect_available_encoders returns
\* a copy of l
CallResult(caller, l) ==
    IF caller = "best"
    THEN [NoResult EXCEPT !.kind = "name", !.name = BestEncoder(ListCopy(l).list)]
    ELSE ListCopy(l)

\* The history after a call returned r, detect_available_encoders giving l
Noted(r, l) ==
    IF ~dhist.first.set THEN [dhist EXCEPT !.first = [set |-> TRUE, list |-> l]]
    ELSE IF r.kind = "name" THEN [dhist EXCEPT !.laterBest = @ \cup {r.name}]
    ELSE [dhist EXCEPT !.laterLists = @ \cup {r.list}]

\* detect_available_encoders() with self._available_encoders set: a copy of it
DetectCachedFor(caller) ==
    /\ dstate # "running"
    /\ dcalls < MaxDetects
    /\ availableEncoders.set
    /\ dcaller' = caller
    /\ dresult' = CallResult(caller, availableEncoders.list)
    /\ dhist' = Noted(dresult', ListCopy(availableEncoders.list).list)
    /\ dstate' = "done"
    /\ dcalls' = dcalls + 1
    /\ UNCHANGED <<hostEncoders, ffmpegAvailable, availableEncoders, dstep, dsub, encoders>>
    /\ UNCHANGED notEnc

DetectCached == DetectCachedFor("detect")

\* get_best_encoder() with self._available_encoders set
GetBestCached == DetectCachedFor("best")

\* detect_available_encoders() with no cached list: encoders = []
DetectBeginFor(caller) ==
    /\ dstate # "running"
    /\ dcalls < MaxDetects
    /\ ~availableEncoders.set
    /\ dcaller' = caller
    /\ encoders' = <<>>
    /\ dstep' = 1
    /\ dsub' = "ffmpeg"
    /\ dstate' = "running"
    /\ dresult' = NoResult
    /\ dcalls' = dcalls + 1
    /\ UNCHANGED <<hostEncoders, ffmpegAvailable, availableEncoders, dhist>>
    /\ UNCHANGED notEnc

DetectBegin == DetectBeginFor("detect")

\* get_best_encoder() with no cached list
GetBestBegin == DetectBeginFor("best")

\* _check_encoder without its "if not self.check_ffmpeg(): return False"
CheckFfmpegCachedIgnored ==
    /\ Probing
    /\ dsub = "ffmpeg"
    /\ ffmpegAvailable # "None"
    /\ dsub' = "query"
    /\ UNCHANGED <<dstate, dstep, encoders, dresult>>
    /\ UNCHANGED <<hostEncoders, ffmpegAvailable, availableEncoders, dcalls, dcaller, dhist>>
    /\ UNCHANGED notEnc

\* check_ffmpeg() with self._ffmpeg_available set, at the top of _check_encoder
CheckFfmpegCached ==
    /\ Probing
    /\ dsub = "ffmpeg"
    /\ ffmpegAvailable # "None"
    /\ IF ffmpegAvailable = "True"
       THEN dsub' = "query" /\ UNCHANGED <<dstate, dstep, encoders, dresult>>
       ELSE ProbeDone(FALSE)
    /\ UNCHANGED <<hostEncoders, ffmpegAvailable, availableEncoders, dcalls, dcaller, dhist>>
    /\ UNCHANGED notEnc

\* check_ffmpeg() running [ffmpeg, "-version"]
CheckFfmpegRun(vo) ==
    /\ Probing
    /\ dsub = "ffmpeg"
    /\ ffmpegAvailable = "None"
    /\ ffmpegAvailable' = CheckFfmpeg(vo)
    /\ dhist' = SpawnedVersion(vo)
    /\ IF CheckFfmpeg(vo) = "True"
       THEN dsub' = "query" /\ UNCHANGED <<dstate, dstep, encoders, dresult>>
       ELSE IF CheckFfmpeg(vo) = "False" THEN ProbeDone(FALSE)
       ELSE ProbeRaises(vo)
    /\ UNCHANGED <<hostEncoders, availableEncoders, dcalls, dcaller>>
    /\ UNCHANGED notEnc

\* _check_encoder running [ffmpeg, "-hide_banner", "-encoders"]
QueryEncoders(qo) ==
    /\ Probing
    /\ dsub = "query"
    /\ dhist' = SpawnedQuery
    /\ LET name == ProbeOrder[dstep]
           r == CheckEncoder(name, qo)
       IN  IF r = "raise" THEN ProbeRaises(qo)
           ELSE IF r = "yes" /\ name \in NvencNames
                THEN dsub' = "driver" /\ UNCHANGED <<dstate, dstep, encoders, dresult>>
           ELSE ProbeDone(r = "yes")
    /\ UNCHANGED <<hostEncoders, ffmpegAvailable, availableEncoders, dcalls, dcaller>>
    /\ UNCHANGED notEnc

\* _check_nvenc / _check_hevc_nvenc calling check_nvidia_driver()
QueryDriver(do) ==
    /\ Probing
    /\ dsub = "driver"
    /\ dhist' = [SpawnedQuery EXCEPT !.driver = IF CheckNvidiaDriver(do) THEN do ELSE @]
    /\ ProbeDone(CheckNvidiaDriver(do))
    /\ UNCHANGED <<hostEncoders, ffmpegAvailable, availableEncoders, dcalls, dcaller>>
    /\ UNCHANGED notEnc

\* if not encoders: encoders.append("libx264")
FinalListNoFallback(found) == found
FinalList(found) == IF found = <<>> THEN <<"libx264">> ELSE found

\* self._available_encoders = encoders; return encoders.copy()
DetectFinish ==
    /\ dstate = "running"
    /\ dstep = Len(ProbeOrder) + 1
    /\ availableEncoders' = [set |-> TRUE, list |-> FinalList(encoders)]
    /\ dresult' = CallResult(dcaller, FinalList(encoders))
    /\ dhist' = Noted(dresult', ListCopy(FinalList(encoders)).list)
    /\ dstate' = "done"
    /\ UNCHANGED <<hostEncoders, ffmpegAvailable, dstep, dsub, encoders, dcalls, dcaller>>
    /\ UNCHANGED notEnc

\* is_hardware_accelerated(encoder): encoder in hardware_encoders
IsHardwareAccelerated(encoder) == encoder \in {"h264_nvenc", "h264_qsv", "h264_amf"}

\* The caller asks is_hardware_accelerated about a name of the detected list.
IsHardwareAcceleratedCall(encoder) ==
    /\ dstate # "running"
    /\ availableEncoders.set
    /\ \E i \in 1..Len(availableEncoders.list) : availableEncoders.list[i] = encoder
    /\ dresult' = [NoResult EXCEPT !.kind = "flag", !.name = encoder,
                                   !.flag = IsHardwareAccelerated(encoder)]
    /\ UNCHANGED <<hostEncoders, ffmpegAvailable, availableEncoders, dstate, dstep, dsub,
                   encoders, dcalls, dcaller, dhist>>
    /\ UNCHANGED notEnc

\* The encoders the host's ffmpeg lists change (a driver or an ffmpeg build is
\* installed or removed) while the EncoderDetector lives.
MaxHostChanges == 1
HostChanges(h) ==
    /\ dhist.changed < MaxHostChanges
    /\ h # hostEncoders
    /\ hostEncoders' = h
    /\ dhist' = [dhist EXCEPT !.changed = @ + 1]
    /\ UNCHANGED <<ffmpegAvailable, availableEncoders, dstate, dstep, dsub, encoders,
                   dresult, dcalls, dcaller>>
    /\ UNCHANGED notEnc

\* What a caller does to the list a call returned to it: clear(), append(x)
Mutations(l) == {<<>>, Append(l, "mpeg4")} \ {l}

\* The caller changes the list object the last detect_available_encoders() call
\* returned; self._available_encoders changes with it iff it is the same object.
CallerMutates(new) ==
    /\ dstate = "done"
    /\ dresult.kind = "list"
    /\ ~dhist.mutated
    /\ availableEncoders' = IF dresult.same
                            THEN [availableEncoders EXCEPT !.list = new]
                            ELSE availableEncoders
    /\ dhist' = [dhist EXCEPT !.mutated = TRUE]
    /\ UNCHANGED <<hostEncoders, ffmpegAvailable, dstate, dstep, dsub, encoders,
                   dresult, dcalls, dcaller>>
    /\ UNCHANGED notEnc

(***************************************************************************)
(* VideoConverter.__init__, find_ffmpeg and _build_ffmpeg_command           *)
(***************************************************************************)
\* str(n) of a Python int, as a string
RECURSIVE StrOfNat(_)
StrOfNat(n) == IF n < 10 THEN Digits[n + 1] ELSE StrOfNat(n \div 10) \o Digits[(n % 10) + 1]
StrOfInt(n) == IF n < 0 THEN "-" \o StrOfNat(0 - n) ELSE StrOfNat(n)

\* The defaults of VideoConverter.__init__
ConverterDefaults ==
    [encoder |-> "auto", width |-> 1280, height |-> 720, bitrate |-> "1000k",
     threads |-> 1, timeout |-> 300, preset |-> "medium", use_crf |-> FALSE, crf |-> 23]

\* VideoConverter(**kw): every field is the argument given, or its default
NewConverter(kw) ==
    [f \in DOMAIN ConverterDefaults |-> IF f \in DOMAIN kw THEN kw[f] ELSE ConverterDefaults[f]]

FfmpegPaths == <<"C:/ffmpeg/bin/ffmpeg.exe", "C:/ffmpeg/ffmpeg.exe", "ffmpeg">>

\* find_ffmpeg() from the i-th path on, files being the paths os.path.isfile accepts
RECURSIVE FindFfmpegFrom(_, _)
FindFfmpegFrom(i, files) ==
    IF i > Len(FfmpegPaths) THEN "ffmpeg"
    ELSE IF FfmpegPaths[i] = "ffmpeg" THEN FfmpegPaths[i]
    ELSE IF FfmpegPaths[i] \in files THEN FfmpegPaths[i]
    ELSE FindFfmpegFrom(i + 1, files)

FindFfmpeg(files) == FindFfmpegFrom(1, files)

\* the hardware acceleration arguments, placed before -i
\* the hardware flags given to the H.264 encoders only
HwaccelArgsH264Only(encoder) ==
    IF encoder = "h264_nvenc"
    THEN <<"-hwaccel", "cuda", "-hwaccel_output_format", "cuda">>
    ELSE IF encoder = "h264_qsv"
    THEN <<"-init_hw_device", "qsv=hw", "-filter_hw_device", "hw",
           "-hwaccel", "qsv", "-hwaccel_output_format", "qsv">>
    ELSE <<>>

HwaccelArgs(encoder) ==
    IF encoder \in {"h264_nvenc", "hevc_nvenc"}
    THEN <<"-hwaccel", "cuda", "-hwaccel_output_format", "cuda">>
    ELSE IF encoder \in {"h264_qsv", "hevc_qsv"}
    THEN <<"-init_hw_device", "qsv=hw", "-filter_hw_device", "hw",
           "-hwaccel", "qsv", "-hwaccel_output_format", "qsv">>
    ELSE <<>>

\* if self.use_crf: -crf str(self.crf)  else: -b:v self.bitrate
QualityArgsBoth(c) == <<"-crf", StrOfInt(c.crf), "-b:v", c.bitrate>>
QualityArgs(c) == IF c.use_crf THEN <<"-crf", StrOfInt(c.crf)>> ELSE <<"-b:v", c.bitrate>>

ScaleCuda(c) == "scale_cuda=" \o StrOfInt(c.width) \o ":" \o StrOfInt(c.height)
ScaleQsv(c) == "scale_qsv=w=" \o StrOfInt(c.width) \o ":h=" \o StrOfInt(c.height)
ScalePlain(c) == "scale=" \o StrOfInt(c.width) \o ":" \o StrOfInt(c.height)

\* One branch of the encoder chain: -c:v, -preset, the quality pair, -vf
EncoderArgs(c, codec, scale) ==
    <<"-c:v", codec, "-preset", c.preset>> \o QualityArgs(c) \o <<"-vf", scale>>

\* _build_ffmpeg_command(input_path, output_path, encoder) of the converter c on
\* a host where files exist
BuildFfmpegCommand(c, input_path, output_path, encoder, files) ==
    <<FindFfmpeg(files), "-threads", StrOfInt(c.threads), "-y">>
    \o HwaccelArgs(encoder)
    \o <<"-i", input_path>>
    \o (IF encoder = "h264_nvenc" THEN EncoderArgs(c, "h264_nvenc", ScaleCuda(c))
        ELSE IF encoder = "hevc_nvenc" THEN EncoderArgs(c, "hevc_nvenc", ScaleCuda(c))
        ELSE IF encoder = "h264_qsv" THEN EncoderArgs(c, "h264_qsv", ScaleQsv(c))
        ELSE IF encoder = "hevc_qsv" THEN EncoderArgs(c, "hevc_qsv", ScaleQsv(c))
        ELSE IF encoder = "h264_amf" THEN EncoderArgs(c, "h264_amf", ScalePlain(c))
        ELSE IF encoder = "hevc_amf" THEN EncoderArgs(c, "hevc_amf", ScalePlain(c))
        ELSE EncoderArgs(c, encoder, ScalePlain(c)))
    \o <<"-c:a", "aac">>
    \o <<output_path>>

\* chist fields:
\*   builds   the calls of _build_ffmpeg_command made: the request (converter
\*            fields, paths, encoder), the argument given for use_crf, the result
\*   changes  changes of the host's ffmpeg files so far
\*   kw       the keyword arguments the converter was constructed with
InitCHist == [builds |-> {}, changes |-> 0, kw |-> <<>>]

\* The converter VideoConverter(**kw) on a host where files exist
CmdStart(kw, files) ==
    /\ vc = NewConverter(kw)
    /\ ffmpegFiles = files
    /\ command = <<>>
    /\ chist = [InitCHist EXCEPT !.kw = kw]

MaxBuilds == 2
MaxFileChanges == 1

\* A caller runs _build_ffmpeg_command
BuildCommand(input_path, output_path, encoder) ==
    /\ Cardinality(chist.builds) < MaxBuilds
    /\ command' = BuildFfmpegCommand(vc, input_path, output_path, encoder, ffmpegFiles)
    /\ chist' = [chist EXCEPT !.builds = @ \cup
                    {[request |-> [c |-> vc, input |-> input_path, output |-> output_path,
                                   encoder |-> encoder],
                      command |-> command']}]
    /\ UNCHANGED <<vc, ffmpegFiles>>
    /\ UNCHANGED notCmd

\* ffmpeg is installed to, or removed from, one of the FFMPEG_PATHS
FfmpegFilesChange(files) ==
    /\ chist.changes < MaxFileChanges
    /\ files # ffmpegFiles
    /\ ffmpegFiles' = files
    /\ chist' = [chist EXCEPT !.changes = @ + 1]
    /\ UNCHANGED <<vc, command>>
    /\ UNCHANGED notCmd

(***************************************************************************)
(* VideoConverter.convert, stop, and the transcoder process                 *)
(***************************************************************************)
MaxConverts == 1
MaxLines == 2
MaxTicks == 2

NoFile == [kind |-> "absent", of |-> ""]
NoProc ==
    [state |-> "none", killed |-> FALSE, reaped |-> FALSE, rc |-> 0, hung |-> FALSE,
     held |-> FALSE, out |-> "", emitted |-> 0]
NoRequest == [input |-> "", output |-> "", cb |-> FALSE]
NoInfo == [duration |-> 0, width |-> 0, height |-> 0]
NoPercent == <<>>
NoProgress == [some |-> FALSE, frame |-> FALSE, time |-> 0, percent |-> NoPercent, raw |-> FALSE]

\* The file at the output path p
FileAt(p) == IF p \in DOMAIN outputs THEN outputs[p] ELSE NoFile
\* outputs after the file at p became f
WithFile(p, f) == [q \in DOMAIN outputs \cup {p} |-> IF q = p THEN f ELSE outputs[q]]

\* rhist fields:
\*   calls     convert() calls made
\*   events    the progress events delivered in this call: [sink, progress]
\*   launches  subprocess.Popen calls that started a transcoder in this call
\*   sameRes   the call found the source at the target resolution
\*   probe     how the ffprobe run of this call ended ("none" before it)
InitRHist ==
    [calls |-> 0, events |-> <<>>, launches |-> 0, sameRes |-> FALSE, probe |-> "none"]

\* The converter with no call in progress, on a disk holding the input files
\* src: fc is "unset" right after __init__, and what the last convert_batch
\* stored in self._file_progress_callback after one
RunStart(src, fc) ==
    /\ stopEvent = FALSE
    /\ lastError = "None"
    /\ fileCb = fc
    /\ cpc = "idle"
    /\ creq = NoRequest
    /\ info = NoInfo
    /\ line = NoProgress
    /\ caught = "none"
    /\ cret = "none"
    /\ deadline = 0
    /\ proc = NoProc
    /\ pipe = <<>>
    /\ sources = src
    /\ outputs = <<>>
    /\ clock = 0
    /\ orphans = 0
    /\ rhist = InitRHist

\* f"{seq:04d}"
ZeroPad4(n) ==
    LET d == StrOfNat(IF n < 0 THEN 0 - n ELSE n)
        w == IF n < 0 THEN 3 ELSE 4
        z == IF Len(d) >= w THEN d
             ELSE IF Len(d) = w - 1 THEN "0" \o d
             ELSE IF Len(d) = w - 2 THEN "00" \o d
             ELSE IF Len(d) = w - 3 THEN "000" \o d
             ELSE "0000" \o d
    IN  IF n < 0 THEN "-" \o z ELSE z

\* input_path.parent / f"av{seq:04d}.mp4", the inputs lying in the folder in/
DefaultOutput(n) == "in/av" \o ZeroPad4(n) \o ".mp4"

\* convert() ends: it returns r, or raises r
ConvertEnds(r) ==
    /\ cpc' = "done"
    /\ cret' = r

\* convert(input_path, output_path, progress_callback) is entered
ConvertBegins(i, o, cb) ==
    /\ cpc \in {"idle", "done"}
    /\ creq' = [input |-> i, output |-> o, cb |-> cb]
    /\ cpc' = "entry"
    /\ cret' = "none"
    /\ caught' = "none"
    /\ clock' = 0
    /\ rhist' = [InitRHist EXCEPT !.calls = rhist.calls + 1]
    /\ UNCHANGED <<stopEvent, lastError, fileCb, info, line, deadline, proc, pipe,
                   sources, outputs, orphans>>

\* A caller runs convert(input_path, output_path, progress_callback)
ConvertCall(i, o, cb) ==
    /\ bpc = "idle"
    /\ rhist.calls < MaxConverts
    /\ ConvertBegins(i, o, cb)
    /\ UNCHANGED <<cmdVars, notRun>>

\* if self._stop_event.is_set(): return False
\* if not input_path.exists(): raise FileNotFoundError
ConvertEntry ==
    /\ cpc = "entry"
    /\ IF stopEvent THEN ConvertEnds("False")
       ELSE IF ~sources[creq.input].exists THEN ConvertEnds("FileNotFoundError")
       ELSE cpc' = "path" /\ UNCHANGED cret
    /\ UNCHANGED <<stopEvent, lastError, fileCb, creq, info, line, caught, deadline, proc,
                   pipe, sources, outputs, clock, orphans, rhist>>
    /\ UNCHANGED <<cmdVars, notRun>>

\* output_path given: output_path.parent.mkdir(parents=True, exist_ok=True)
ConvertPathGiven(mk) ==
    /\ cpc = "path"
    /\ creq.output # "None"
    /\ IF mk = "ok" THEN cpc' = "probe" /\ UNCHANGED cret ELSE ConvertEnds(mk)
    /\ UNCHANGED <<stopEvent, lastError, fileCb, creq, info, line, caught, deadline, proc,
                   pipe, sources, outputs, clock, orphans, rhist>>
    /\ UNCHANGED <<cmdVars, notRun>>

\* output_path is None: seq = self.sequence_manager.get_next(), the file write
\* succeeding; output_path = input_path.parent / f"av{seq:04d}.mp4"; mkdir
ConvertPathAllocated(mk) ==
    /\ cpc = "path"
    /\ creq.output = "None"
    /\ alive[1]
    /\ lock[1] = Free
    /\ cur' = [cur EXCEPT ![1] = @ + 1]
    /\ file' = FileOf(IntToStr(cur[1] + 1))
    /\ creq' = [creq EXCEPT !.output = DefaultOutput(cur[1])]
    /\ IF mk = "ok" THEN cpc' = "probe" /\ UNCHANGED cret ELSE ConvertEnds(mk)
    /\ UNCHANGED <<stopEvent, lastError, fileCb, info, line, caught, deadline, proc,
                   pipe, sources, outputs, clock, orphans, rhist>>
    /\ UNCHANGED <<alive, lock, mgr, pc, op, seq, arg, hist>>
    /\ UNCHANGED <<cmdVars, encVars, batVars>>

\* get_video_info(input_path), the ffprobe run ending in po
\* a probe whose failure is not noticed: the values of the file all the same
GetVideoInfoAnyway(path, po) ==
    [duration |-> sources[path].duration, width |-> sources[path].width,
     height |-> sources[path].height]

GetVideoInfo(path, po) ==
    IF po = "ok"
    THEN [duration |-> sources[path].duration, width |-> sources[path].width,
          height |-> sources[path].height]
    ELSE NoInfo

\* src_width == self.width and src_height == self.height and both > 0
SameResolution(c, vi) ==
    vi.width = c.width /\ vi.height = c.height /\ c.width > 0 /\ c.height > 0

\* video_info = self.get_video_info(...); the resolution test
ConvertProbe(po) ==
    /\ cpc = "probe"
    /\ info' = GetVideoInfo(creq.input, po)
    /\ IF SameResolution(vc, info')
       THEN /\ cpc' = "copy"
            /\ lastError' = "None"
            /\ rhist' = [rhist EXCEPT !.sameRes = TRUE, !.probe = po]
       ELSE /\ cpc' = "encoder"
            /\ rhist' = [rhist EXCEPT !.probe = po]
            /\ UNCHANGED lastError
    /\ UNCHANGED <<stopEvent, fileCb, creq, line, caught, cret, deadline, proc,
                   pipe, sources, outputs, clock, orphans>>
    /\ UNCHANGED <<cmdVars, notRun>>

\* The progress dict of the copy path: percent 100.0, time float(duration) or 0.0
CopyProgress(vi) ==
    [some |-> TRUE, frame |-> FALSE, time |-> vi.duration, percent |-> <<100, 1>>,
     raw |-> FALSE]

\* shutil.copy2 ending in co: done, raising before the destination was opened,
\* raising with part of the bytes written, raising after the bytes (copystat)
ConvertCopy(co) ==
    /\ cpc = "copy"
    /\ outputs' =
          IF co \in {"ok", "raises_after"}
          THEN WithFile(creq.output, [kind |-> "copy", of |-> creq.input])
          ELSE IF co = "raises_partial"
          THEN WithFile(creq.output, [kind |-> "partial", of |-> creq.input])
          ELSE outputs
    /\ IF co = "ok"
       THEN /\ lastError' = "SKIPPED_SAME_RESOLUTION"
            /\ cpc' = "copy_file_cb"
            /\ UNCHANGED cret
       ELSE /\ lastError' = "Copy failed"
            /\ ConvertEnds("False")
    /\ UNCHANGED <<stopEvent, fileCb, creq, info, line, caught, deadline, proc,
                   pipe, sources, clock, orphans, rhist>>
    /\ UNCHANGED <<cmdVars, notRun>>

\* The progress reaches the sink, which returns (so = "ok") or raises
Delivered(sink, progress) ==
    [rhist EXCEPT !.events = Append(@, [sink |-> sink, progress |-> progress])]

\* if hasattr(self, "_file_progress_callback") and self._file_progress_callback:
\*     self._file_progress_callback(progress)          (copy path)
ConvertCopyFileSink(so) ==
    /\ cpc = "copy_file_cb"
    /\ IF fileCb = "sink"
       THEN /\ rhist' = Delivered("file", CopyProgress(info))
            /\ IF so = "ok"
               THEN cpc' = "copy_cb" /\ UNCHANGED <<cret, lastError>>
               ELSE lastError' = "Copy failed" /\ ConvertEnds("False")
       ELSE /\ so = "ok"
            /\ cpc' = "copy_cb"
            /\ UNCHANGED <<cret, lastError, rhist>>
    /\ UNCHANGED <<stopEvent, fileCb, creq, info, line, caught, deadline, proc,
                   pipe, sources, outputs, clock, orphans>>
    /\ UNCHANGED <<cmdVars, notRun>>

\* if progress_callback: progress_callback(progress); return True   (copy path)
ConvertCopySink(so) ==
    /\ cpc = "copy_cb"
    /\ IF creq.cb
       THEN /\ rhist' = Delivered("user", CopyProgress(info))
            /\ IF so = "ok"
               THEN ConvertEnds("True") /\ UNCHANGED lastError
               ELSE lastError' = "Copy failed" /\ ConvertEnds("False")
       ELSE /\ so = "ok"
            /\ ConvertEnds("True")
            /\ UNCHANGED <<lastError, rhist>>
    /\ UNCHANGED <<stopEvent, fileCb, creq, info, line, caught, deadline, proc,
                   pipe, sources, outputs, clock, orphans>>
    /\ UNCHANGED <<cmdVars, notRun>>

\* _get_encoder(), the detector having its list cached when encoder is "auto"
GetEncoder(c) ==
    IF c.encoder = "auto" THEN BestEncoder(availableEncoders.list) ELSE c.encoder

\* encoder = self._get_encoder(); command = self._build_ffmpeg_command(...);
\* self._last_error = None
ConvertBuild ==
    /\ cpc = "encoder"
    /\ vc.encoder = "auto" => availableEncoders.set
    /\ command' = BuildFfmpegCommand(vc, creq.input, creq.output, GetEncoder(vc),
                                     ffmpegFiles)
    /\ lastError' = "None"
    /\ cpc' = "popen"
    /\ UNCHANGED <<stopEvent, fileCb, creq, info, line, caught, cret, deadline, proc,
                   pipe, sources, outputs, clock, orphans, rhist>>
    /\ UNCHANGED <<vc, ffmpegFiles, chist>>
    /\ UNCHANGED notRun

\* process = subprocess.Popen(command, ...), ending in lo
ConvertPopen(lo) ==
    /\ cpc = "popen"
    /\ IF lo = "ok"
       THEN /\ proc' = [NoProc EXCEPT !.state = "running", !.out = creq.output]
            /\ pipe' = <<>>
            /\ orphans' = IF proc.state = "running" THEN orphans + 1 ELSE orphans
            /\ rhist' = [rhist EXCEPT !.launches = @ + 1]
            /\ cpc' = "loop"
            /\ UNCHANGED caught
       ELSE /\ caught' = lo
            /\ cpc' = "handler"
            /\ UNCHANGED <<proc, pipe, orphans, rhist>>
    /\ UNCHANGED <<stopEvent, lastError, fileCb, creq, info, line, cret, deadline,
                   sources, outputs, clock>>
    /\ UNCHANGED <<cmdVars, notRun>>

\* process.kill(): on a process that has ended it only collects the exit status
Kill(p) ==
    IF p.state = "running" THEN [p EXCEPT !.killed = TRUE] ELSE [p EXCEPT !.reaped = TRUE]

\* while True: if self._stop_event.is_set(): process.kill() ...
ConvertLoopCheck ==
    /\ cpc = "loop"
    /\ IF stopEvent
       THEN proc' = Kill(proc) /\ cpc' = "cancel"
       ELSE cpc' = "readline" /\ UNCHANGED proc
    /\ UNCHANGED <<stopEvent, lastError, fileCb, creq, info, line, caught, cret, deadline,
                   pipe, sources, outputs, clock, orphans, rhist>>
    /\ UNCHANGED <<cmdVars, notRun>>

\* output_path.unlink() can end in uo: a file another process holds open cannot
\* be deleted on Windows (PermissionError)
CanUnlinkEndIn(uo) ==
    \/ uo = "ok"
    \/ uo = "PermissionError" /\ FileAt(creq.output).kind # "absent"
                              /\ proc.state = "running" /\ proc.out = creq.output

\* if output_path.exists(): output_path.unlink()
Unlinked == IF FileAt(creq.output).kind # "absent" THEN WithFile(creq.output, NoFile)
            ELSE outputs

\* (stop seen) the unlink; self._last_error = "stopped by the user"; return False
ConvertCancel(uo) ==
    /\ cpc = "cancel"
    /\ CanUnlinkEndIn(uo)
    /\ IF uo = "ok"
       THEN /\ outputs' = Unlinked
            /\ lastError' = "stopped"
            /\ ConvertEnds("False")
            /\ UNCHANGED caught
       ELSE /\ caught' = uo
            /\ cpc' = "handler"
            /\ UNCHANGED <<outputs, lastError, cret>>
    /\ UNCHANGED <<stopEvent, fileCb, creq, info, line, deadline, proc,
                   pipe, sources, clock, orphans, rhist>>
    /\ UNCHANGED <<cmdVars, notRun>>

\* (current_time / duration) * 100 without the min(100, ...)
PercentUnclamped(time, duration) == <<time * 100, duration>>

\* min(100, (current_time / duration) * 100), as a fraction <<num, den>>
Percent(time, duration) ==
    IF time * 100 > 100 * duration THEN <<100, 1>> ELSE <<time * 100, duration>>

\* _parse_progress(line, duration): l.frame says frame= matched, l.time is the
\* time= value in seconds, negative when time= did not match
ParseProgress(l, duration) ==
    IF ~l.frame /\ l.time < 0 THEN NoProgress
    ELSE [some |-> TRUE, frame |-> l.frame, time |-> l.time,
          percent |-> IF l.time >= 0 /\ duration > 0 THEN Percent(l.time, duration)
                      ELSE NoPercent,
          raw |-> TRUE]

MaxParses == 2
MaxTime == 4
MaxDuration == 3

\* A caller runs _parse_progress(line, duration) on its own: what it was given
\* and what it got back (nothing is recorded for None) are kept in rhist.events
ParseCall(l, duration) ==
    /\ cpc = "idle"
    /\ rhist.calls < MaxParses
    /\ line' = ParseProgress(l, duration)
    /\ rhist' = [rhist EXCEPT
                    !.calls = @ + 1,
                    !.events = IF line'.some
                               THEN Append(@, [sink |-> "caller", progress |-> line',
                                               given |-> l, duration |-> duration])
                               ELSE @]
    /\ UNCHANGED <<stopEvent, lastError, fileCb, cpc, creq, info, caught, cret, deadline,
                   proc, pipe, sources, outputs, clock, orphans>>
    /\ UNCHANGED <<cmdVars, notRun>>

\* should_report
ShouldReport == creq.cb \/ fileCb = "sink"

\* a read loop that takes the newest line of the pipe first
ConvertReadlineNewestFirst ==
    /\ cpc = "readline"
    /\ IF pipe # <<>>
       THEN /\ pipe' = SubSeq(pipe, 1, Len(pipe) - 1)
            /\ line' = IF ShouldReport THEN ParseProgress(pipe[Len(pipe)], info.duration)
                       ELSE NoProgress
            /\ cpc' = IF line'.some THEN "file_cb" ELSE "loop"
            /\ UNCHANGED <<proc, deadline>>
       ELSE /\ proc.state = "dead"
            /\ proc' = [proc EXCEPT !.reaped = TRUE]
            /\ deadline' = clock + vc.timeout
            /\ cpc' = "communicate"
            /\ UNCHANGED <<pipe, line>>
    /\ UNCHANGED <<stopEvent, lastError, fileCb, creq, info, caught, cret,
                   sources, outputs, clock, orphans, rhist>>
    /\ UNCHANGED <<cmdVars, notRun>>

\* line = process.stderr.readline(): blocks until the process wrote a line or
\* its stderr is at end of file; then the break test and _parse_progress
ConvertReadline ==
    /\ cpc = "readline"
    /\ IF pipe # <<>>
       THEN /\ pipe' = Tail(pipe)
            /\ line' = IF ShouldReport THEN ParseProgress(Head(pipe), info.duration)
                       ELSE NoProgress
            /\ cpc' = IF line'.some THEN "file_cb" ELSE "loop"
            /\ UNCHANGED <<proc, deadline>>
       ELSE /\ proc.state = "dead"
            /\ proc' = [proc EXCEPT !.reaped = TRUE]
            /\ deadline' = clock + vc.timeout
            /\ cpc' = "communicate"
            /\ UNCHANGED <<pipe, line>>
    /\ UNCHANGED <<stopEvent, lastError, fileCb, creq, info, caught, cret,
                   sources, outputs, clock, orphans, rhist>>
    /\ UNCHANGED <<cmdVars, notRun>>

\* if hasattr(self, "_file_progress_callback") and self._file_progress_callback:
\*     self._file_progress_callback(progress)          (read loop)
ConvertFileSink(so) ==
    /\ cpc = "file_cb"
    /\ IF fileCb = "sink"
       THEN /\ rhist' = Delivered("file", line)
            /\ IF so = "ok"
               THEN cpc' = "user_cb" /\ UNCHANGED caught
               ELSE caught' = "SinkError" /\ cpc' = "handler"
       ELSE /\ so = "ok"
            /\ cpc' = "user_cb"
            /\ UNCHANGED <<caught, rhist>>
    /\ UNCHANGED <<stopEvent, lastError, fileCb, creq, info, line, cret, deadline, proc,
                   pipe, sources, outputs, clock, orphans>>
    /\ UNCHANGED <<cmdVars, notRun>>

\* if progress_callback: progress_callback(progress)   (read loop)
ConvertSink(so) ==
    /\ cpc = "user_cb"
    /\ IF creq.cb
       THEN /\ rhist' = Delivered("user", line)
            /\ IF so = "ok"
               THEN cpc' = "loop" /\ UNCHANGED caught
               ELSE caught' = "SinkError" /\ cpc' = "handler"
       ELSE /\ so = "ok"
            /\ cpc' = "loop"
            /\ UNCHANGED <<caught, rhist>>
    /\ UNCHANGED <<stopEvent, lastError, fileCb, creq, info, line, cret, deadline, proc,
                   pipe, sources, outputs, clock, orphans>>
    /\ UNCHANGED <<cmdVars, notRun>>

\* a finalizing step that does not look at process.returncode
ConvertCommunicateIgnoresStatus ==
    /\ cpc = "communicate"
    /\ IF ~proc.held
       THEN ConvertEnds("True") /\ UNCHANGED <<lastError, outputs>>
       ELSE /\ clock >= deadline
            /\ cpc' = "timeout"
            /\ UNCHANGED <<cret, lastError, outputs>>
    /\ UNCHANGED <<stopEvent, fileCb, creq, info, line, caught, deadline, proc,
                   pipe, sources, clock, orphans, rhist>>
    /\ UNCHANGED <<cmdVars, notRun>>

\* stdout, stderr = process.communicate(timeout=self.timeout): returns when the
\* pipes are closed, raises TimeoutExpired when they are still open at the
\* deadline; then the returncode test
ConvertCommunicate ==
    /\ cpc = "communicate"
    /\ IF ~proc.held
       THEN IF proc.rc = 0
            THEN ConvertEnds("True") /\ UNCHANGED <<lastError, outputs>>
            ELSE /\ lastError' = "stderr"
                 /\ outputs' = Unlinked
                 /\ ConvertEnds("False")
       ELSE /\ clock >= deadline
            /\ cpc' = "timeout"
            /\ UNCHANGED <<cret, lastError, outputs>>
    /\ UNCHANGED <<stopEvent, fileCb, creq, info, line, caught, deadline, proc,
                   pipe, sources, clock, orphans, rhist>>
    /\ UNCHANGED <<cmdVars, notRun>>

\* except subprocess.TimeoutExpired: process.kill(); process.communicate() (which
\* waits for the pipes to close); the unlink; raise TimeoutError
ConvertTimeout ==
    /\ cpc = "timeout"
    /\ ~proc.held
    /\ proc' = Kill(proc)
    /\ outputs' = Unlinked
    /\ lastError' = "timeout"
    /\ ConvertEnds("TimeoutError")
    /\ UNCHANGED <<stopEvent, fileCb, creq, info, line, caught, deadline,
                   pipe, sources, clock, orphans, rhist>>
    /\ UNCHANGED <<cmdVars, notRun>>

\* except Exception as e: self._last_error = str(e); the unlink; raise
ConvertHandler(uo) ==
    /\ cpc = "handler"
    /\ CanUnlinkEndIn(uo)
    /\ lastError' = caught
    /\ IF uo = "ok"
       THEN outputs' = Unlinked /\ ConvertEnds(caught)
       ELSE UNCHANGED outputs /\ ConvertEnds(uo)
    /\ UNCHANGED <<stopEvent, fileCb, creq, info, line, caught, deadline, proc,
                   pipe, sources, clock, orphans, rhist>>
    /\ UNCHANGED <<cmdVars, notRun>>

\* stop(), called by another thread
Stop ==
    /\ ~stopEvent
    /\ stopEvent' = TRUE
    /\ bhist' = [bhist EXCEPT
                    !.stops = @ + 1,
                    !.atStop = [bpc |-> bpc, bidx |-> bidx, cur |-> cur[1],
                                success |-> success, failed |-> failed,
                                positions |-> bhist.positions]]
    /\ UNCHANGED <<lastError, fileCb, cpc, creq, info, line, caught, cret, deadline, proc,
                   pipe, sources, outputs, clock, orphans, rhist>>
    /\ UNCHANGED <<bpc, batch, bidx, success, failed, failedFiles, bret>>
    /\ UNCHANGED <<seqVars, encVars, cmdVars>>

\* a reset_stop() that leaves the flag as it is
ResetStopKeeps(flag) == flag

\* reset_stop(): self._stop_event.clear()
ResetStop(flag) == FALSE

\* What only the process changes
ProcOnly ==
    /\ UNCHANGED <<stopEvent, lastError, fileCb, cpc, creq, info, line, caught, cret,
                   deadline, sources, clock, orphans, rhist>>
    /\ UNCHANGED <<cmdVars, notRun>>

\* The diagnostic lines a transcoder writes to stderr
StderrLines ==
    {[frame |-> FALSE, time |-> 0 - 1],
     [frame |-> TRUE, time |-> 5],
     [frame |-> TRUE, time |-> 20]}

\* The process writes a line to stderr (a line written after convert() ended
\* is read by nobody and is not kept)
ProcEmits(l) ==
    /\ proc.state = "running"
    /\ cpc \notin {"idle", "done"}
    /\ ~proc.hung
    /\ proc.emitted < MaxLines
    /\ pipe' = Append(pipe, l)
    /\ proc' = [proc EXCEPT !.emitted = @ + 1]
    /\ UNCHANGED outputs
    /\ ProcOnly

\* The process creates, or writes more of, its output file
ProcWrites ==
    /\ proc.state = "running"
    /\ ~proc.hung
    /\ FileAt(proc.out).kind # "partial"
    /\ outputs' = WithFile(proc.out, [kind |-> "partial", of |-> ""])
    /\ UNCHANGED <<proc, pipe>>
    /\ ProcOnly

\* The process exits on its own with status rc; held: a descendant keeps its
\* stdout open
ProcExits(rc, held) ==
    /\ proc.state = "running"
    /\ ~proc.hung
    /\ ~proc.killed
    /\ proc' = [proc EXCEPT !.state = "dead", !.rc = rc, !.held = held]
    /\ outputs' = IF rc = 0 THEN WithFile(proc.out, [kind |-> "encoded", of |-> ""])
                  ELSE outputs
    /\ UNCHANGED pipe
    /\ ProcOnly

\* The kill takes effect
ProcDies ==
    /\ proc.state = "running"
    /\ proc.killed
    /\ proc' = [proc EXCEPT !.state = "dead", !.rc = 0 - 9]
    /\ UNCHANGED <<pipe, outputs>>
    /\ ProcOnly

\* The process stops making progress: it writes no more line and does not exit
ProcHangs ==
    /\ proc.state = "running"
    /\ ~proc.hung
    /\ ~proc.killed
    /\ proc' = [proc EXCEPT !.hung = TRUE]
    /\ UNCHANGED <<pipe, outputs>>
    /\ ProcOnly

\* The descendant holding the pipes ends
PipeCloses ==
    /\ proc.state = "dead"
    /\ proc.held
    /\ proc' = [proc EXCEPT !.held = FALSE]
    /\ UNCHANGED <<pipe, outputs>>
    /\ ProcOnly

\* convert() is waiting: in readline for a line of a running process, or in
\* communicate for the pipes to close
Waiting ==
    \/ cpc = "readline" /\ pipe = <<>> /\ proc.state = "running"
    \/ cpc = "communicate" /\ proc.held /\ clock < deadline
    \/ cpc = "timeout" /\ proc.held

\* Time passes while convert() waits
Tick ==
    /\ Waiting
    /\ clock < MaxTicks
    /\ clock' = clock + 1
    /\ UNCHANGED <<stopEvent, lastError, fileCb, cpc, creq, info, line, caught, cret,
                   deadline, proc, pipe, sources, outputs, orphans, rhist>>
    /\ UNCHANGED <<cmdVars, notRun>>

(***************************************************************************)
(* VideoConverter.convert_batch                                            *)
(***************************************************************************)
MaxBatches == 1

NoBatch == [files |-> <<>>, delete |-> FALSE, cb |-> FALSE, fcb |-> FALSE]

\* bhist fields:
\*   calls      convert_batch() calls made
\*   positions  the indices given to progress_callback, in order
\*   stops      stop() calls that set the flag since the last convert_batch()
\*              call began (since construction before the first)
\*   flagAtCall whether the flag was set when the last convert_batch() began
\*   atStop     where the batch was when the last of these stop() calls came
\*   sources    the input files on disk when the last convert_batch() began
\*   outcomes   for each file gone through, in order: how its convert() ended
\*              and how the unlink of the source ended ("none": not tried)
\*   allocated  for each file attempted, in order: the number get_next()
\*              returned for it and the output path built from it
NoStop ==
    [bpc |-> "idle", bidx |-> 0, cur |-> 0, success |-> 0, failed |-> 0,
     positions |-> <<>>]
InitBHist ==
    [calls |-> 0, positions |-> <<>>, stops |-> 0, flagAtCall |-> FALSE,
     atStop |-> NoStop, sources |-> <<>>, outcomes |-> <<>>, allocated |-> <<>>]

BatStart ==
    /\ bpc = "idle"
    /\ batch = NoBatch
    /\ bidx = 0
    /\ success = 0
    /\ failed = 0
    /\ failedFiles = <<>>
    /\ bret = "none"
    /\ bhist = InitBHist

\* an output name made of the height only
BatchOutputUnnumbered(height, n) ==
    IF height > 0 THEN "out/av-" \o StrOfInt(height) \o "p.mp4" ELSE "out/av.mp4"

\* output_folder / f"av-{out_height}p-{seq:04d}.mp4", or f"av-{seq:04d}.mp4"
BatchOutput(height, n) ==
    IF height > 0 THEN "out/av-" \o StrOfInt(height) \o "p-" \o ZeroPad4(n) \o ".mp4"
    ELSE "out/av-" \o ZeroPad4(n) \o ".mp4"

\* convert_batch ends: it returns its result dict, or raises r
BatchEnds(r) ==
    /\ bpc' = "done"
    /\ bret' = r

\* The result dict
BatchResult ==
    [total |-> Len(batch.files), success |-> success, failed |-> failed,
     failed_files |-> failedFiles]

\* convert_batch(input_files, output_folder, delete_original, progress_callback,
\* file_progress_callback): reset_stop(), mkdir, the counters,
\* self._file_progress_callback = file_progress_callback; when mkdir raises the
\* locals of the call were never assigned and are shown as before any call
BatchCall(files, del, cb, fcb, mk) ==
    /\ bpc \in {"idle", "done", "started"}
    /\ cpc \in {"idle", "done"}
    /\ bhist.calls < MaxBatches
    /\ stopEvent' = ResetStop(stopEvent)
    /\ batch' = [files |-> files, delete |-> del, cb |-> cb, fcb |-> fcb]
    /\ bhist' = [InitBHist EXCEPT !.calls = bhist.calls + 1, !.flagAtCall = stopEvent,
                                  !.sources = sources]
    /\ IF mk = "ok"
       THEN /\ fileCb' = IF fcb THEN "sink" ELSE "None"
            /\ bidx' = 1
            /\ success' = 0
            /\ failed' = 0
            /\ failedFiles' = <<>>
            /\ bpc' = "check"
            /\ bret' = "none"
       ELSE /\ BatchEnds(mk)
            /\ bidx' = 0
            /\ success' = 0
            /\ failed' = 0
            /\ failedFiles' = <<>>
            /\ UNCHANGED fileCb
    /\ UNCHANGED <<lastError, cpc, creq, info, line, caught, cret, deadline, proc, pipe,
                   sources, outputs, clock, orphans, rhist>>
    /\ UNCHANGED <<seqVars, encVars, cmdVars>>

\* the loop head without the stop test
BatchCheckNoStopTest ==
    /\ bpc = "check"
    /\ IF bidx > Len(batch.files)
       THEN BatchEnds("result")
       ELSE bpc' = "position" /\ UNCHANGED bret
    /\ UNCHANGED <<batch, bidx, success, failed, failedFiles, bhist>>
    /\ UNCHANGED <<seqVars, encVars, cmdVars, runVars>>

\* for idx, input_file in enumerate(input_files):
\*     if self._stop_event.is_set(): break
\* and the return after the loop
BatchCheck ==
    /\ bpc = "check"
    /\ IF bidx > Len(batch.files) \/ stopEvent
       THEN BatchEnds("result")
       ELSE bpc' = "position" /\ UNCHANGED bret
    /\ UNCHANGED <<batch, bidx, success, failed, failedFiles, bhist>>
    /\ UNCHANGED <<seqVars, encVars, cmdVars, runVars>>

\* if progress_callback: progress_callback(idx, total, str(input_file))
BatchPosition(so) ==
    /\ bpc = "position"
    /\ IF batch.cb
       THEN /\ bhist' = [bhist EXCEPT !.positions = Append(@, bidx - 1)]
            /\ IF so = "ok" THEN bpc' = "file" /\ UNCHANGED bret
               ELSE BatchEnds("SinkError")
       ELSE /\ so = "ok"
            /\ bpc' = "file"
            /\ UNCHANGED <<bret, bhist>>
    /\ UNCHANGED <<batch, bidx, success, failed, failedFiles>>
    /\ UNCHANGED <<seqVars, encVars, cmdVars, runVars>>

\* try: video_info = self.get_video_info(...); seq = self.sequence_manager
\* .get_next(), the file write succeeding; the output path; self.convert(
\* str(input_file), str(output_path)) is entered
BatchConvert ==
    /\ bpc = "file"
    /\ alive[1]
    /\ lock[1] = Free
    /\ cur' = [cur EXCEPT ![1] = @ + 1]
    /\ file' = FileOf(IntToStr(cur[1] + 1))
    /\ ConvertBegins(batch.files[bidx], BatchOutput(vc.height, cur[1]), FALSE)
    /\ bpc' = "convert"
    /\ bhist' = [bhist EXCEPT !.allocated =
                    Append(@, [seq |-> cur[1], path |-> BatchOutput(vc.height, cur[1])])]
    /\ UNCHANGED <<batch, bidx, success, failed, failedFiles, bret>>
    /\ UNCHANGED <<alive, lock, mgr, pc, op, seq, arg, hist>>
    /\ UNCHANGED <<encVars, cmdVars>>

\* the accounting without the except clause: an exception of convert() leaves
\* convert_batch
BatchAfterConvertPropagates(uo) ==
    /\ bpc = "convert"
    /\ cpc = "done"
    /\ cpc' = "idle"
    /\ IF cret = "True"
       THEN /\ success' = success + 1
            /\ sources' = IF batch.delete /\ uo = "ok"
                          THEN [sources EXCEPT ![batch.files[bidx]].exists = FALSE]
                          ELSE sources
            /\ batch.delete \/ uo = "ok"
            /\ bidx' = bidx + 1
            /\ bpc' = "check"
            /\ UNCHANGED <<failed, failedFiles, bret>>
       ELSE IF cret = "False"
       THEN /\ uo = "ok"
            /\ failed' = failed + 1
            /\ failedFiles' = Append(failedFiles, <<batch.files[bidx]>>)
            /\ bidx' = bidx + 1
            /\ bpc' = "check"
            /\ UNCHANGED <<success, sources, bret>>
       ELSE /\ uo = "ok"
            /\ BatchEnds(cret)
            /\ UNCHANGED <<success, failed, failedFiles, sources, bidx>>
    /\ bhist' = [bhist EXCEPT !.outcomes =
                    Append(@, [ret |-> cret,
                               unlink |-> IF cret = "True" /\ batch.delete THEN uo
                                          ELSE "none"])]
    /\ UNCHANGED batch
    /\ UNCHANGED <<stopEvent, lastError, fileCb, creq, info, line, caught, cret, deadline,
                   proc, pipe, outputs, clock, orphans, rhist>>
    /\ UNCHANGED <<seqVars, encVars, cmdVars>>

\* the accounting with the source also unlinked after a failed session
BatchAfterConvertDeletesFailed(uo) ==
    /\ bpc = "convert"
    /\ cpc = "done"
    /\ cpc' = "idle"
    /\ IF cret = "True"
       THEN /\ success' = success + 1
            /\ sources' = IF batch.delete /\ uo = "ok"
                          THEN [sources EXCEPT ![batch.files[bidx]].exists = FALSE]
                          ELSE sources
            /\ batch.delete \/ uo = "ok"
            /\ UNCHANGED <<failed, failedFiles>>
       ELSE /\ uo = "ok"
            /\ failed' = failed + 1
            /\ failedFiles' = Append(failedFiles,
                                     IF cret = "False" THEN <<batch.files[bidx]>>
                                     ELSE <<batch.files[bidx], cret>>)
            /\ sources' = IF batch.delete
                          THEN [sources EXCEPT ![batch.files[bidx]].exists = FALSE]
                          ELSE sources
            /\ UNCHANGED success
    /\ bidx' = bidx + 1
    /\ bpc' = "check"
    /\ bhist' = [bhist EXCEPT !.outcomes =
                    Append(@, [ret |-> cret,
                               unlink |-> IF cret = "True" /\ batch.delete THEN uo
                                          ELSE "none"])]
    /\ UNCHANGED <<batch, bret>>
    /\ UNCHANGED <<stopEvent, lastError, fileCb, creq, info, line, caught, cret, deadline,
                   proc, pipe, outputs, clock, orphans, rhist>>
    /\ UNCHANGED <<seqVars, encVars, cmdVars>>

\* the accounting with an except clause that records the file but does not
\* count it
BatchAfterConvertUncountedRaise(uo) ==
    /\ bpc = "convert"
    /\ cpc = "done"
    /\ cpc' = "idle"
    /\ IF cret = "True"
       THEN /\ success' = success + 1
            /\ sources' = IF batch.delete /\ uo = "ok"
                          THEN [sources EXCEPT ![batch.files[bidx]].exists = FALSE]
                          ELSE sources
            /\ batch.delete \/ uo = "ok"
            /\ UNCHANGED <<failed, failedFiles>>
       ELSE /\ uo = "ok"
            /\ failed' = IF cret = "False" THEN failed + 1 ELSE failed
            /\ failedFiles' = Append(failedFiles,
                                     IF cret = "False" THEN <<batch.files[bidx]>>
                                     ELSE <<batch.files[bidx], cret>>)
            /\ UNCHANGED <<success, sources>>
    /\ bidx' = bidx + 1
    /\ bpc' = "check"
    /\ bhist' = [bhist EXCEPT !.outcomes =
                    Append(@, [ret |-> cret,
                               unlink |-> IF cret = "True" /\ batch.delete THEN uo
                                          ELSE "none"])]
    /\ UNCHANGED <<batch, bret>>
    /\ UNCHANGED <<stopEvent, lastError, fileCb, creq, info, line, caught, cret, deadline,
                   proc, pipe, outputs, clock, orphans, rhist>>
    /\ UNCHANGED <<seqVars, encVars, cmdVars>>

\* convert() returned True: success += 1; if delete_original:
\* Path(input_file).unlink(), an exception of it being printed
\* convert() returned False: failed += 1; failed_files.append(input_file)
\* except Exception as e: failed += 1; failed_files.append((input_file, str(e)))
BatchAfterConvert(uo) ==
    /\ bpc = "convert"
    /\ cpc = "done"
    /\ cpc' = "idle"
    /\ IF cret = "True"
       THEN /\ success' = success + 1
            /\ sources' = IF batch.delete /\ uo = "ok"
                          THEN [sources EXCEPT ![batch.files[bidx]].exists = FALSE]
                          ELSE sources
            /\ batch.delete \/ uo = "ok"
            /\ UNCHANGED <<failed, failedFiles>>
       ELSE /\ uo = "ok"
            /\ failed' = failed + 1
            /\ failedFiles' = Append(failedFiles,
                                     IF cret = "False" THEN <<batch.files[bidx]>>
                                     ELSE <<batch.files[bidx], cret>>)
            /\ UNCHANGED <<success, sources>>
    /\ bidx' = bidx + 1
    /\ bpc' = "check"
    /\ bhist' = [bhist EXCEPT !.outcomes =
                    Append(@, [ret |-> cret,
                               unlink |-> IF cret = "True" /\ batch.delete THEN uo
                                          ELSE "none"])]
    /\ UNCHANGED <<batch, bret>>
    /\ UNCHANGED <<stopEvent, lastError, fileCb, creq, info, line, caught, cret, deadline,
                   proc, pipe, outputs, clock, orphans, rhist>>
    /\ UNCHANGED <<seqVars, encVars, cmdVars>>

\* MainWindow.start_conversion, on the UI thread: the stop button is enabled, a
\* new VideoConverter is built (its flag clear, no error, no file sink) and the
\* worker thread is started; bpc = "started" is the worker before it has run
\* self.reset_stop() at the top of convert_batch
StartConversion ==
    /\ bpc \in {"idle", "done"}
    /\ cpc \in {"idle", "done"}
    /\ bhist.calls < MaxBatches
    /\ bpc' = "started"
    /\ stopEvent' = FALSE
    /\ lastError' = "None"
    /\ fileCb' = "unset"
    /\ bhist' = [InitBHist EXCEPT !.calls = bhist.calls]
    /\ UNCHANGED <<batch, bidx, success, failed, failedFiles, bret>>
    /\ UNCHANGED <<cpc, creq, info, line, caught, cret, deadline, proc, pipe,
                   sources, outputs, clock, orphans, rhist>>
    /\ UNCHANGED <<seqVars, encVars, cmdVars>>

\* MainWindow.convert_thread, on the worker thread: convert_batch is called with
\* both sinks
ConvertThread(files, del, mk) ==
    /\ bpc = "started"
    /\ BatchCall(files, del, TRUE, TRUE, mk)

\* MainWindow.stop_conversion, on the UI thread: if self.converter:
\* self.converter.stop() (the window's own stop_event is read by nobody)
StopConversion ==
    /\ bpc # "idle"
    /\ Stop

(***************************************************************************)
(* Specifications.                                                         *)
(***************************************************************************)
vars == <<seqVars, encVars, cmdVars, runVars, batVars>>

SeqIdle == SeqStart(AbsentFile, [t \in Threads |-> 1])
EncIdle == EncStart({})
CmdIdle == CmdStart(<<>>, {})
RunIdle == RunStart(<<>>, "unset") /\ BatStart

\* The sequence component after SequenceManager() read the file f
SeqBuilt(f) ==
    LET r == LoadSequence(f, "ok") IN
    /\ file = f
    /\ alive = [m \in Managers |-> m = 1]
    /\ cur = [m \in Managers |-> IF m = 1 THEN r.val ELSE 0]
    /\ lock = [m \in Managers |-> Free]
    /\ mgr = [t \in Threads |-> 1]
    /\ pc = [t \in Threads |-> "idle"]
    /\ op = [t \in Threads |-> "none"]
    /\ seq = [t \in Threads |-> 0]
    /\ arg = [t \in Threads |-> 0]
    /\ hist = [InitHist EXCEPT !.nctor[1] = 1,
                               !.ctor[1] = [file |-> f, outcome |-> "ok", raised |-> FALSE],
                               !.runs[1] = <<r.val>>]

\* The detector after a detect_available_encoders() call returned the list l
EncDetected(l) ==
    /\ hostEncoders = {l[i] : i \in 1..Len(l)}
    /\ ffmpegAvailable = "True"
    /\ availableEncoders = [set |-> TRUE, list |-> l]
    /\ dstate = "done"
    /\ dstep = Len(ProbeOrder) + 1
    /\ dsub = "ffmpeg"
    /\ encoders = l
    /\ dresult = ListCopy(l)
    /\ dcalls = 1
    /\ dcaller = "detect"
    /\ dhist = [InitDHist EXCEPT !.first = [set |-> TRUE, list |-> l]]

\* Sequence files a run can start with: none, or the digits of a number,
\* possibly surrounded by whitespace.
NominalFiles ==
    {AbsentFile,
     FileOf(<<"1">>),
     FileOf(<<" ", "3", "\n">>),
     FileOf(<<"0", "9">>)}

\* Sequence files holding no number.
BrokenFiles ==
    {FileOf(<<>>),
     FileOf(<<" ", "\n">>),
     FileOf(<<"x">>),
     FileOf(<<"2", "x">>),
     FileOf(<<"1", ".", "5">>)}

\* get_next on the SequenceManager of thread t, file operations succeeding
GetNextSteps(t) ==
    \/ GetNextCall(t)
    \/ GetNextAcquire(t)
    \/ GetNextRead(t)
    \/ GetNextIncrement(t)
    \/ SaveOpen(t)
    \/ SaveWrite(t)
    \/ GetNextReturn(t)

\* One SequenceManager shared by all threads, which call get_next and reset;
\* every file operation succeeds.
InitSeq == (\E f \in NominalFiles : SeqStart(f, [t \in Threads |-> 1])) /\ EncIdle /\ CmdIdle /\ RunIdle
NextSeq ==
    \/ Construct(1, "ok")
    \/ \E t \in Threads :
         \/ GetNextSteps(t)
         \/ \E s \in ResetValues : ResetCall(t, s)
         \/ ResetAcquire(t)
         \/ ResetAssign(t)
         \/ ResetReturn(t)
Spec == InitSeq /\ [][NextSeq]_vars

\* One SequenceManager shared by all threads, which call get_next and
\* get_current; every file operation succeeds.
NextPeek ==
    \/ Construct(1, "ok")
    \/ \E t \in Threads :
         \/ GetNextSteps(t)
         \/ GetCurrent(t)
SpecPeek == InitSeq /\ [][NextPeek]_vars

\* One SequenceManager per process run, called by the threads of CrashCallers;
\* reads and writes of the file can fail and the process can die at any point
\* and be started again.
CrashCallers == Threads \cap {1, 2}
InitCrash ==
    (\E f \in NominalFiles \cup BrokenFiles : SeqStart(f, [t \in Threads |-> 1]))
    /\ EncIdle
    /\ CmdIdle
    /\ RunIdle
NextCrash ==
    \/ \E o \in ReadOutcomes : Construct(1, o)
    \/ \E t \in CrashCallers :
         \/ GetNextSteps(t)
         \/ SaveOpenFails(t)
         \/ SaveWriteFails(t)
    \/ Crash
SpecCrash == InitCrash /\ [][NextCrash]_vars

\* Two SequenceManager objects on the same file in one process, as made by two
\* VideoConverter() built without a sequence_manager; thread t uses its own.
InitShared ==
    (\E f \in NominalFiles :
        SeqStart(f, [t \in Threads |-> IF t % 2 = 1 THEN 1 ELSE 2]))
    /\ EncIdle
    /\ CmdIdle
    /\ RunIdle
NextShared ==
    \/ \E m \in Managers : Construct(m, "ok")
    \/ \E t \in Threads : GetNextSteps(t)
SpecShared == InitShared /\ [][NextShared]_vars

\* One EncoderDetector on a host whose ffmpeg lists any set of encoders.
InitEnc == (\E h \in SUBSET EncoderTokens : EncStart(h)) /\ SeqIdle /\ CmdIdle /\ RunIdle
NextEnc ==
    \/ DetectCached
    \/ DetectBegin
    \/ CheckFfmpegCached
    \/ \E vo \in VersionOutcomes : CheckFfmpegRun(vo)
    \/ \E qo \in QueryOutcomes : QueryEncoders(qo)
    \/ \E do \in DriverOutcomes : QueryDriver(do)
    \/ DetectFinish
SpecEnc == InitEnc /\ [][NextEnc]_vars

\* One EncoderDetector whose callers use detect_available_encoders and
\* get_best_encoder and change the lists they were given, on a host whose
\* encoders change.
CacheHosts ==
    {{}, {"libx264"}, {"hevc_nvenc", "libx264"}, {"h264_qsv", "libx265", "libx264rgb"}}
InitCache == (\E h \in CacheHosts : EncStart(h)) /\ SeqIdle /\ CmdIdle /\ RunIdle
NextCache ==
    \/ DetectCached
    \/ DetectBegin
    \/ GetBestCached
    \/ GetBestBegin
    \/ CheckFfmpegCached
    \/ \E vo \in VersionOutcomes : CheckFfmpegRun(vo)
    \/ \E qo \in QueryOutcomes : QueryEncoders(qo)
    \/ \E do \in DriverOutcomes : QueryDriver(do)
    \/ DetectFinish
    \/ \E h \in CacheHosts : HostChanges(h)
    \/ \E l \in Mutations(dresult.list) : CallerMutates(l)
SpecCache == InitCache /\ [][NextCache]_vars

\* One EncoderDetector whose caller asks is_hardware_accelerated about the
\* encoders it detected.
HwHosts ==
    {{"hevc_nvenc", "hevc_amf", "hevc_qsv", "h264_nvenc", "h264_qsv", "h264_amf",
      "libx265", "libx264"},
     {"hevc_amf", "h264_amf", "libx264"},
     {"hevc_qsv", "libx265"},
     {}}
InitHw == (\E h \in HwHosts : EncStart(h)) /\ SeqIdle /\ CmdIdle /\ RunIdle
NextHw ==
    \/ DetectCached
    \/ DetectBegin
    \/ CheckFfmpegCached
    \/ \E vo \in VersionOutcomes : CheckFfmpegRun(vo)
    \/ \E qo \in QueryOutcomes : QueryEncoders(qo)
    \/ \E do \in DriverOutcomes : QueryDriver(do)
    \/ DetectFinish
    \/ \E e \in EncoderTokens : IsHardwareAcceleratedCall(e)
SpecHw == InitHw /\ [][NextHw]_vars

\* One VideoConverter whose _build_ffmpeg_command is called, on a host where
\* ffmpeg is installed or removed meanwhile.
UseCrfArgs == {<<>>, [use_crf |-> TRUE], [use_crf |-> FALSE]}
SizeArgs == {<<>>, [width |-> 1920, height |-> 1080], [width |-> 0, height |-> 0]}
CrfArgs == {<<>>, [crf |-> 0]}
\* the keyword arguments of a, then those of b
Merge(a, b) == [f \in DOMAIN a \cup DOMAIN b |-> IF f \in DOMAIN a THEN a[f] ELSE b[f]]
ConverterArgs == {Merge(u, Merge(z, q)) : u \in UseCrfArgs, z \in SizeArgs, q \in CrfArgs}
FfmpegFileSets == SUBSET {FfmpegPaths[1], FfmpegPaths[2]}
BuildEncoders == (EncoderTokens \ {"libx264rgb"}) \cup {"mpeg4"}
InputPaths == {"in/a.mkv"}
OutputPaths == {"out/av-720p-0001.mp4"}
InitCmd ==
    /\ \E kw \in ConverterArgs : \E fs \in FfmpegFileSets : CmdStart(kw, fs)
    /\ SeqIdle
    /\ EncIdle
    /\ RunIdle
NextCmd ==
    \/ \E i \in InputPaths : \E o \in OutputPaths : \E e \in BuildEncoders :
          BuildCommand(i, o, e)
    \/ \E fs \in FfmpegFileSets : FfmpegFilesChange(fs)
SpecCmd == InitCmd /\ [][NextCmd]_vars

\* One VideoConverter whose convert() is called by a worker thread while another
\* thread may call stop(); the transcoder process, the disk and the progress
\* sinks behave in every way they can.
RunArgs == {[timeout |-> 1], [timeout |-> 1, encoder |-> "libx264"]}
RunSources ==
    [p \in {"in/same.mp4", "in/big.mkv", "in/gone.mp4"} |->
        IF p = "in/same.mp4"
        THEN [exists |-> TRUE, width |-> 1280, height |-> 720, duration |-> 10]
        ELSE IF p = "in/big.mkv"
        THEN [exists |-> TRUE, width |-> 1920, height |-> 1080, duration |-> 10]
        ELSE [exists |-> FALSE, width |-> 0, height |-> 0, duration |-> 0]]
RunOutputs == {"out/x.mp4", "None"}
FileCbValues == {"unset", "None", "sink"}
MkdirOutcomes == {"ok", "PermissionError"}
FfprobeOutcomes == {"ok", "fails"}
CopyOutcomes == {"ok", "raises_before", "raises_partial", "raises_after"}
SinkOutcomes == {"ok", "raises"}
PopenOutcomes == {"ok", "FileNotFoundError"}
UnlinkOutcomes == {"ok", "PermissionError"}
ExitStatuses == {0, 1}

InitRun ==
    /\ \E kw \in RunArgs : CmdStart(kw, {})
    /\ \E fc \in FileCbValues : RunStart(RunSources, fc)
    /\ BatStart
    /\ SeqBuilt(AbsentFile)
    /\ EncDetected(<<"h264_qsv", "libx264">>)

\* The steps of convert() called with an output path
ConvertSteps ==
    \/ ConvertEntry
    \/ \E mk \in MkdirOutcomes : ConvertPathGiven(mk)
    \/ \E po \in FfprobeOutcomes : ConvertProbe(po)
    \/ \E co \in CopyOutcomes : ConvertCopy(co)
    \/ \E so \in SinkOutcomes : ConvertCopyFileSink(so)
    \/ \E so \in SinkOutcomes : ConvertCopySink(so)
    \/ ConvertBuild
    \/ \E lo \in PopenOutcomes : ConvertPopen(lo)
    \/ ConvertLoopCheck
    \/ \E uo \in UnlinkOutcomes : ConvertCancel(uo)
    \/ ConvertReadline
    \/ \E so \in SinkOutcomes : ConvertFileSink(so)
    \/ \E so \in SinkOutcomes : ConvertSink(so)
    \/ ConvertCommunicate
    \/ ConvertTimeout
    \/ \E uo \in UnlinkOutcomes : ConvertHandler(uo)

\* The steps of the transcoder process and of what it leaves behind
ProcSteps ==
    \/ \E l \in StderrLines : ProcEmits(l)
    \/ ProcWrites
    \/ \E rc \in ExitStatuses : \E held \in BOOLEAN : ProcExits(rc, held)
    \/ ProcDies
    \/ PipeCloses

NextRun ==
    \/ \E i \in DOMAIN RunSources : \E o \in RunOutputs : \E cb \in BOOLEAN :
          ConvertCall(i, o, cb)
    \/ \E mk \in MkdirOutcomes : ConvertPathAllocated(mk)
    \/ ConvertSteps
    \/ Stop
    \/ ProcSteps
    \/ Tick
SpecRun == InitRun /\ [][NextRun]_vars

\* One VideoConverter whose convert_batch() is called by a worker thread while
\* another thread may call stop().
BatchLists == {<<"in/big.mkv", "in/same.mp4">>, <<"in/gone.mp4", "in/big.mkv">>}
\* delete_original, and whether progress_callback and file_progress_callback are given
BatchOptions ==
    {[delete |-> FALSE, cb |-> TRUE, fcb |-> TRUE],
     [delete |-> TRUE, cb |-> FALSE, fcb |-> FALSE]}
InitBatch ==
    /\ CmdStart([timeout |-> 1, encoder |-> "libx264"], {})
    /\ RunStart(RunSources, "unset")
    /\ BatStart
    /\ SeqBuilt(AbsentFile)
    /\ EncDetected(<<"h264_qsv", "libx264">>)

\* The steps of convert_batch() around its convert() calls
BatchSteps ==
    \/ BatchCheck
    \/ \E so \in SinkOutcomes : BatchPosition(so)
    \/ BatchConvert
    \/ \E uo \in UnlinkOutcomes : BatchAfterConvert(uo)

NextBatch ==
    \/ \E fl \in BatchLists : \E bo \in BatchOptions : \E mk \in MkdirOutcomes :
          BatchCall(fl, bo.delete, bo.cb, bo.fcb, mk)
    \/ BatchSteps
    \/ ConvertSteps
    \/ Stop
    \/ ProcSteps
    \/ Tick
SpecBatch == InitBatch /\ [][NextBatch]_vars

(***************************************************************************)
(* SpecBatchQuiet: convert_batch with a transcoder that prints no progress *)
(* line, so that no progress event comes from the read loop; the process   *)
(* may exit with its pipes held open, which ends in a timeout; stop() may  *)
(* come at any time.                                                       *)
(***************************************************************************)
NextBatchQuiet ==
    \/ \E fl \in BatchLists : \E bo \in BatchOptions : \E mk \in MkdirOutcomes :
          BatchCall(fl, bo.delete, bo.cb, bo.fcb, mk)
    \/ BatchSteps
    \/ ConvertEntry
    \/ \E mk \in MkdirOutcomes : ConvertPathGiven(mk)
    \/ \E po \in FfprobeOutcomes : ConvertProbe(po)
    \/ \E co \in CopyOutcomes : ConvertCopy(co)
    \/ \E so \in SinkOutcomes : ConvertCopyFileSink(so)
    \/ \E so \in SinkOutcomes : ConvertCopySink(so)
    \/ ConvertBuild
    \/ \E lo \in PopenOutcomes : ConvertPopen(lo)
    \/ ConvertLoopCheck
    \/ \E uo \in UnlinkOutcomes : ConvertCancel(uo)
    \/ ConvertReadline
    \/ ConvertCommunicate
    \/ ConvertTimeout
    \/ \E uo \in UnlinkOutcomes : ConvertHandler(uo)
    \/ Stop
    \/ \E rc \in ExitStatuses : \E held \in BOOLEAN : ProcExits(rc, held)
    \/ ProcDies
    \/ PipeCloses
    \/ Tick
SpecBatchQuiet == InitBatch /\ [][NextBatchQuiet]_vars

(***************************************************************************)
(* SpecBatchFaults: convert_batch, called with both callbacks, when a file *)
(* can fail in every way: a missing input, a launch error, a non-zero      *)
(* exit, a timeout, a sink raising on a progress line or on the copy.      *)
(* Nobody calls stop().                                                    *)
(***************************************************************************)
ProgressLine == [frame |-> TRUE, time |-> 5]

NextBatchFaults ==
    \/ \E fl \in BatchLists : \E mk \in MkdirOutcomes :
          BatchCall(fl, FALSE, TRUE, TRUE, mk)
    \/ BatchSteps
    \/ ConvertEntry
    \/ \E mk \in MkdirOutcomes : ConvertPathGiven(mk)
    \/ \E po \in FfprobeOutcomes : ConvertProbe(po)
    \/ \E co \in CopyOutcomes : ConvertCopy(co)
    \/ \E so \in SinkOutcomes : ConvertCopyFileSink(so)
    \/ \E so \in SinkOutcomes : ConvertCopySink(so)
    \/ ConvertBuild
    \/ \E lo \in PopenOutcomes : ConvertPopen(lo)
    \/ ConvertLoopCheck
    \/ ConvertReadline
    \/ \E so \in SinkOutcomes : ConvertFileSink(so)
    \/ \E so \in SinkOutcomes : ConvertSink(so)
    \/ ConvertCommunicate
    \/ ConvertTimeout
    \/ \E uo \in UnlinkOutcomes : ConvertHandler(uo)
    \/ ProcEmits(ProgressLine)
    \/ \E rc \in ExitStatuses : \E held \in BOOLEAN : ProcExits(rc, held)
    \/ PipeCloses
    \/ Tick
SpecBatchFaults == InitBatch /\ [][NextBatchFaults]_vars

\* One convert() call with an output path and no progress sink, on a transcoder
\* that writes its output file, writes diagnostic lines and exits with any
\* status, while another thread may call stop().
InitExit ==
    /\ CmdStart([timeout |-> 1, encoder |-> "libx264"], {})
    /\ RunStart(RunSources, "unset")
    /\ BatStart
    /\ SeqBuilt(AbsentFile)
    /\ EncDetected(<<"h264_qsv", "libx264">>)

NextExit ==
    \/ \E i \in DOMAIN RunSources : ConvertCall(i, "out/x.mp4", FALSE)
    \/ ConvertEntry
    \/ \E mk \in MkdirOutcomes : ConvertPathGiven(mk)
    \/ \E po \in FfprobeOutcomes : ConvertProbe(po)
    \/ ConvertCopy("ok")
    \/ ConvertCopyFileSink("ok")
    \/ ConvertCopySink("ok")
    \/ ConvertBuild
    \/ \E lo \in PopenOutcomes : ConvertPopen(lo)
    \/ ConvertLoopCheck
    \/ \E uo \in UnlinkOutcomes : ConvertCancel(uo)
    \/ ConvertReadline
    \/ ConvertCommunicate
    \/ ConvertTimeout
    \/ \E uo \in UnlinkOutcomes : ConvertHandler(uo)
    \/ Stop
    \/ \E l \in StderrLines : ProcEmits(l)
    \/ ProcWrites
    \/ \E rc \in ExitStatuses : \E held \in BOOLEAN : ProcExits(rc, held)
    \/ ProcDies
    \/ PipeCloses
    \/ Tick
SpecExit == InitExit /\ [][NextExit]_vars

\* The n-th diagnostic line of a transcoder: its time= value grows with n
NthLine(n) == [frame |-> TRUE, time |-> n]

\* One VideoConverter whose convert_batch() is called with both progress sinks
\* on transcoders that write progress lines of growing time and exit; a sink
\* returns or raises.
NextOrder ==
    \/ \E fl \in BatchLists : BatchCall(fl, FALSE, TRUE, TRUE, "ok")
    \/ BatchSteps
    \/ ConvertEntry
    \/ ConvertPathGiven("ok")
    \/ ConvertProbe("ok")
    \/ ConvertCopy("ok")
    \/ \E so \in SinkOutcomes : ConvertCopyFileSink(so)
    \/ ConvertCopySink("ok")
    \/ ConvertBuild
    \/ ConvertPopen("ok")
    \/ ConvertLoopCheck
    \/ ConvertReadline
    \/ \E so \in SinkOutcomes : ConvertFileSink(so)
    \/ ConvertSink("ok")
    \/ ConvertCommunicate
    \/ ConvertHandler("ok")
    \/ ProcEmits(NthLine(proc.emitted + 1))
    \/ \E rc \in ExitStatuses : ProcExits(rc, FALSE)
SpecOrder == InitBatch /\ [][NextOrder]_vars

\* The window: start_conversion builds a converter and starts the worker, which
\* runs convert_batch on transcoders that print no progress line, while the
\* user may press the stop button at any time after the start.
NextUi ==
    \/ StartConversion
    \/ \E fl \in BatchLists : \E mk \in MkdirOutcomes : ConvertThread(fl, FALSE, mk)
    \/ StopConversion
    \/ BatchSteps
    \/ ConvertEntry
    \/ ConvertPathGiven("ok")
    \/ \E po \in FfprobeOutcomes : ConvertProbe(po)
    \/ ConvertCopy("ok")
    \/ ConvertCopyFileSink("ok")
    \/ ConvertCopySink("ok")
    \/ ConvertBuild
    \/ ConvertPopen("ok")
    \/ ConvertLoopCheck
    \/ \E uo \in UnlinkOutcomes : ConvertCancel(uo)
    \/ ConvertReadline
    \/ ConvertCommunicate
    \/ \E rc \in ExitStatuses : ProcExits(rc, FALSE)
    \/ ProcDies
SpecUi == InitBatch /\ [][NextUi]_vars

(***************************************************************************)
(* SpecParse: _parse_progress applied to lines with and without frame= and *)
(* time=, for durations from 0 (unknown) to MaxDuration seconds.           *)
(***************************************************************************)
ParseLines == [frame : BOOLEAN, time : (0 - 1)..MaxTime]
ParseDurations == 0..MaxDuration

InitParse ==
    /\ SeqIdle
    /\ EncIdle
    /\ CmdIdle
    /\ RunIdle

NextParse == \E l \in ParseLines : \E d \in ParseDurations : ParseCall(l, d)

SpecParse == InitParse /\ [][NextParse]_vars

\* The same with a transcoder that can hang, the worker thread being scheduled
\* whenever it can run, a killed process dying, a process that is not hung going
\* on to exit, and a descendant holding the pipes ending.
InitRunFair ==
    /\ CmdStart([timeout |-> 1, encoder |-> "libx264"], {})
    /\ RunStart(RunSources, "sink")
    /\ BatStart
    /\ SeqBuilt(AbsentFile)
    /\ EncDetected(<<"h264_qsv", "libx264">>)
NextRunFair ==
    \/ NextRun
    \/ ProcHangs
SpecRunFair ==
    /\ InitRunFair
    /\ [][NextRunFair]_vars
    /\ WF_vars(ConvertSteps)
    /\ WF_vars(\E mk \in MkdirOutcomes : ConvertPathAllocated(mk))
    /\ WF_vars(ProcDies)
    /\ WF_vars(PipeCloses)
    /\ WF_vars(\E rc \in ExitStatuses : \E held \in BOOLEAN : ProcExits(rc, held))

(***************************************************************************)
(* Properties of SequenceManager.                                          *)
(***************************************************************************)
\* Thread t is inside get_next and has read the value it will return.
HoldsNumber(t) ==
    op[t] = "get_next" /\ pc[t] \in {"gn_inc", "save_open", "save_write", "ret"}

\* The numbers get_next has returned on manager m, incarnation i, epoch e.
Returned(m, i, e) == {r[4] : r \in {x \in hist.rets : x[1] = m /\ x[2] = i /\ x[3] = e}}

AllIdle == \A t \in Threads : pc[t] = "idle"

\* C1: in any interleaving of get_next calls of concurrent threads on one
\* SequenceManager, no two calls return the same integer: no number is
\* returned twice, no number in the hands of a call was already returned, and no
\* two calls in progress hold the same number (calls separated by a reset are
\* C6's matter).
C1_NoTwoCallsSameNumber ==
    /\ hist.dups = {}
    /\ \A t \in Threads :
          HoldsNumber(t) =>
             seq[t] \notin Returned(mgr[t], hist.nctor[mgr[t]], hist.callEp[t])
    /\ \A t1, t2 \in Threads :
          (/\ t1 # t2
           /\ HoldsNumber(t1)
           /\ HoldsNumber(t2)
           /\ mgr[t1] = mgr[t2]
           /\ hist.callEp[t1] = hist.callEp[t2])
          => seq[t1] # seq[t2]

\* Two threads race: one is about to return its number while another waits for
\* the lock, and an earlier call has already returned a number.
C1_Witness ==
    \E t1, t2 \in Threads :
        /\ t1 # t2
        /\ pc[t1] = "ret" /\ op[t1] = "get_next"
        /\ pc[t2] = "gn_lock"
        /\ hist.nresets = 0
        /\ Returned(1, 1, 0) # {}

\* C2: after get_current() returned p, N get_next calls (no reset in between)
\* return exactly p, p+1, ..., p+N-1, each once, and get_current() then
\* returns p+N.
C2_ContiguousRunFromPeek ==
    \A m \in Managers :
        (alive[m] /\ hist.peek[m].on /\ lock[m] = Free) =>
            LET k == hist.peek[m] IN
            /\ k.vals = k.p .. (k.p + k.n - 1)
            /\ GetCurrentResult(m) = k.p + k.n

\* get_current() returned 3 and two get_next calls have completed since.
C2_Witness ==
    /\ alive[1]
    /\ lock[1] = Free
    /\ hist.peek[1].on
    /\ hist.peek[1].p = 3
    /\ hist.peek[1].n = 2
    /\ AllIdle

\* C3: on one sequence file, a number get_next returned before a restart is never
\* returned again by a SequenceManager constructed after it, whatever the crash
\* point inside get_next and whichever writes failed with a swallowed IOError.
C3_NoReuseAcrossRestart ==
    \A r1, r2 \in hist.rets : r1[2] # r2[2] => r1[4] # r2[4]

\* Decimal value of a string of digits, by position.
RECURSIVE DecimalValue(_)
DecimalValue(s) ==
    IF s = <<>> THEN 0
    ELSE DecimalValue(SubSeq(s, 1, Len(s) - 1)) * 10 + DigitVal(s[Len(s)])

\* The text holds the digits of k, with nothing but whitespace around them.
HoldsDigitsOf(text, k) ==
    \E i, j \in 1..Len(text) :
        /\ i <= j
        /\ \A x \in 1..Len(text) :
              IF x < i \/ x > j THEN IsSpace(text[x]) ELSE IsDigit(text[x])
        /\ DecimalValue(SubSeq(text, i, j)) = k

\* The numbers a sequence file of the model can hold.
FileNumbers == 0..99

BadAtConstruction(m) ==
    LET c == hist.ctor[m] IN
    /\ c.file.exists
    /\ \/ c.outcome # "ok"
       \/ \A k \in FileNumbers : ~HoldsDigitsOf(c.file.text, k)

\* C5: with an unreadable, empty or non-integer sequence file, constructing a
\* SequenceManager does not raise, the counter starts at 1, and get_next returns
\* distinct increasing numbers within the process, also when writes fail.
C5_BadFileStartsAtOne ==
    /\ \A m \in Managers : ~hist.ctor[m].raised
    /\ \A m \in Managers :
          (hist.nctor[m] > 0 /\ BadAtConstruction(m)) =>
              /\ alive[m] => hist.runs[m] = <<1>>
              /\ hist.taken[m] = 0 /\ alive[m] => cur[m] = 1
    /\ hist.dups = {}
    /\ \A t \in Threads :
          (pc[t] = "ret" /\ op[t] = "get_next") =>
              \A v \in Returned(mgr[t], hist.nctor[mgr[t]], hist.callEp[t]) : v < seq[t]

\* The file " 3\n" could not be read, no write has reached it, and the process
\* has handed out 1 and 2.
C5_Witness ==
    /\ hist.ctor[1].outcome = "PermissionError"
    /\ hist.ctor[1].file = FileOf(<<" ", "3", "\n">>)
    /\ file = FileOf(<<" ", "3", "\n">>)
    /\ hist.saveFailed
    /\ hist.nctor[1] = 1
    /\ Returned(1, 1, 0) = {1, 2}

\* The values of epoch e of manager m: returned, or held by a call in progress.
EpochValues(m, e) ==
    Returned(m, hist.nctor[m], e)
        \cup {seq[t] : t \in {u \in Threads : HoldsNumber(u) /\ mgr[u] = m
                                              /\ hist.callEp[u] = e}}

C7_NoDuplicateOnSharedFile ==
    /\ hist.dups = {}
    /\ \A r1, r2 \in hist.rets : r1 # r2 => r1[4] # r2[4]

(***************************************************************************)
(* Properties of EncoderDetector.                                          *)
(***************************************************************************)
\* The list the last detect_available_encoders() call returned, if it returned.
ReturnedList == dresult.kind = "list"

\* C8: detect_available_encoders() never returns an empty list, whatever the
\* probes' outcomes: binary missing, -version failing or timing out, the
\* encoder-list query failing or timing out, every encoder name absent.
C8_NeverEmptyList ==
    /\ ReturnedList => dresult.list # <<>>
    /\ availableEncoders.set => availableEncoders.list # <<>>

\* The -version check failed on a host whose ffmpeg lists every encoder: no probe
\* found anything, and the call returned.
C8_Witness ==
    /\ ReturnedList
    /\ dstate = "done"
    /\ ffmpegAvailable = "False"
    /\ encoders = <<>>
    /\ hostEncoders = EncoderTokens

SoftwareEncoders == {"libx264", "libx265"}

\* C9: the list detect_available_encoders() returns always holds a software
\* encoder (libx264 or libx265), also when hardware encoders were detected and
\* the encoder list names neither libx264 nor libx265.
C9_SoftwareEncoderPresent ==
    ReturnedList => \E i \in 1..Len(dresult.list) : dresult.list[i] \in SoftwareEncoders

\* a is a subsequence of b (b without repeats)
IsSubsequence(a, b) ==
    /\ \A i \in 1..Len(a) : \E j \in 1..Len(b) : b[j] = a[i]
    /\ \A i, j \in 1..Len(a) :
          i < j => (CHOOSE x \in 1..Len(b) : b[x] = a[i]) < (CHOOSE y \in 1..Len(b) : b[y] = a[j])

\* The priority order of the claim: HEVC hardware, H.264 hardware, libx265,
\* libx264, with NVIDIA, Intel, AMD inside both hardware groups.
VendorOrder ==
    <<"hevc_nvenc", "hevc_qsv", "hevc_amf", "h264_nvenc", "h264_qsv", "h264_amf",
      "libx265", "libx264">>

\* C10: the list detect_available_encoders() returns is a subsequence of one
\* priority order: HEVC hardware before H.264 hardware before libx265 before
\* libx264, the vendors inside both hardware groups in the order nvenc, qsv, amf.
C10_SubsequenceOfVendorOrder ==
    ReturnedList => IsSubsequence(dresult.list, VendorOrder)

HardwareEncoders ==
    {"hevc_nvenc", "hevc_amf", "hevc_qsv", "h264_nvenc", "h264_qsv", "h264_amf"}

\* C12: is_hardware_accelerated(name) is true for every hardware encoder name
\* detect_available_encoders() can return (hevc_nvenc, hevc_amf, hevc_qsv,
\* h264_nvenc, h264_qsv, h264_amf) and false for libx264 and libx265.
C12_HardwareNamesRecognised ==
    dresult.kind = "flag" =>
        /\ dresult.name \in HardwareEncoders => dresult.flag
        /\ dresult.name \in SoftwareEncoders => ~dresult.flag

(***************************************************************************)
(* Properties of the command builder.                                      *)
(***************************************************************************)
\* The number of elements of the list l equal to x.
RECURSIVE Count(_, _)
Count(l, x) ==
    IF l = <<>> THEN 0 ELSE (IF Head(l) = x THEN 1 ELSE 0) + Count(Tail(l), x)

\* C13: for every encoder name and every value of use_crf, the list built by
\* _build_ffmpeg_command holds exactly one of the flags -b:v and -crf: -crf when
\* use_crf is true, -b:v when it is false or was left at its default; never both.
C13_ExactlyOneQualityFlag ==
    \A b \in chist.builds :
        /\ Count(b.command, "-crf") + Count(b.command, "-b:v") = 1
        /\ Count(b.command, "-crf") = 1
              <=> ("use_crf" \in DOMAIN chist.kw /\ chist.kw.use_crf)

\* Two lists were built: one for a hardware encoder with use_crf given as true,
\* one for a software encoder.
C13_Witness ==
    /\ "use_crf" \in DOMAIN chist.kw
    /\ chist.kw.use_crf
    /\ \E b1, b2 \in chist.builds :
          /\ b1.request.encoder = "hevc_qsv"
          /\ b2.request.encoder = "libx265"
          /\ Count(b1.command, "-crf") = 1

\* C14: _build_ffmpeg_command is a function of the request and the resolved
\* encoder only: two calls with the same parameters and encoder give the same
\* list, whatever the state of the host's file system at each call.
C14_SameRequestSameCommand ==
    \A b1, b2 \in chist.builds :
        b1.request = b2.request => b1.command = b2.command

(***************************************************************************)
(* Properties of convert().                                                *)
(***************************************************************************)
\* convert() has returned or raised.
ConvertEnded == cpc = "done"

\* The progress events of the call delivered to the sink s.
EventsTo(s) == SelectSeq(rhist.events, LAMBDA e : e.sink = s)

\* C15: whenever the target width and height are both positive and equal the
\* probed source width and height, convert() starts no transcoder, returns True
\* as skipped-identical, leaves an output file with the bytes of the source and
\* reports one 100% progress event to each sink it has; also when the copy raises.
C15_SameResolutionCopies ==
    (ConvertEnded /\ rhist.sameRes) =>
        /\ cret = "True"
        /\ lastError = "SKIPPED_SAME_RESOLUTION"
        /\ rhist.launches = 0
        /\ FileAt(creq.output) = [kind |-> "copy", of |-> creq.input]
        /\ \A i \in 1..Len(rhist.events) : rhist.events[i].progress.percent = <<100, 1>>
        /\ Len(EventsTo("file")) = (IF fileCb = "sink" THEN 1 ELSE 0)
        /\ Len(EventsTo("user")) = (IF creq.cb THEN 1 ELSE 0)

\* C16: when convert() ends in any outcome other than success, no file exists at
\* the output path once it has returned or raised, even if the transcoder had
\* partly written one and may still be writing when the kill is issued; when it
\* ends in success the output file exists.
C16_OutputFileIffSuccess ==
    ConvertEnded =>
        /\ cret # "True" => FileAt(creq.output).kind = "absent"
        /\ cret = "True" => FileAt(creq.output).kind # "absent"

\* The transcoder process of the call has been started and the call has not ended.
SessionRunning == rhist.launches > 0 /\ ~ConvertEnded

\* C17: a conversion whose transcoder process is still running when the
\* configured timeout has elapsed is terminated and ends as timed out: no
\* session is in the running state beyond the timeout.
C17_NoSessionBeyondTimeout ==
    SessionRunning => clock <= vc.timeout

\* convert() is in its read loop.
InReadLoop == cpc \in {"loop", "readline", "file_cb", "user_cb"}

\* C18: if stop() is called while a conversion is in the running state, the
\* session sees it: the process is killed and convert() ends, also when the
\* transcoder writes no further line and does not exit.
C18_StopEndsSession ==
    (stopEvent /\ InReadLoop) ~> ConvertEnded

\* C19: on every exit path of a session the transcoder process has been
\* terminated and reaped before convert() returns or raises.
C19_ProcessReapedAtEnd ==
    (ConvertEnded /\ rhist.launches > 0) => (proc.state = "dead" /\ proc.reaped)

(***************************************************************************)
(* Properties of convert_batch().                                          *)
(***************************************************************************)
\* The transcoder processes started by the converter that are alive.
AliveProcesses == orphans + (IF proc.state = "running" THEN 1 ELSE 0)

\* C20: during a convert_batch run at most one transcoder process started by the
\* converter is alive at any time: the process of file i has exited before the
\* process of file i+1 is started, also when the session of file i ended through
\* an exception or a cancellation.
C20_OneProcessAtATime ==
    bpc # "idle" => AliveProcesses <= 1

\* C21: every percentage in a progress event lies in [0, 100], also when the
\* parsed time= value exceeds the duration, and an event made from a diagnostic
\* line carries a percentage only when the duration is greater than 0.
C21_PercentWithinRange ==
    \A i \in 1..Len(rhist.events) :
        LET e == rhist.events[i] IN
            e.progress.percent # NoPercent =>
                /\ e.progress.percent[2] > 0
                /\ 0 <= e.progress.percent[1]
                /\ e.progress.percent[1] <= 100 * e.progress.percent[2]
                /\ e.duration > 0

\* a time= value beyond the duration was parsed and reported as 100 percent
C21_Witness ==
    \E i \in 1..Len(rhist.events) :
        /\ rhist.events[i].given.time > rhist.events[i].duration
        /\ rhist.events[i].duration > 0
        /\ rhist.events[i].progress.percent = <<100, 1>>

\* convert_batch has returned its result dict
BatchReturned == bpc = "done" /\ bret = "result"

\* C22: convert_batch clears the cancellation flag when it starts: with no stop()
\* since the call began, the flag is clear during the whole batch, whatever it
\* was before, and the batch returns only after going through every file.
C22_BatchStartsClean ==
    (bpc # "idle" /\ bhist.stops = 0) =>
        /\ ~stopEvent
        /\ BatchReturned => bidx = Len(batch.files) + 1
        /\ BatchReturned => success + failed = Len(batch.files)

\* the flag was set when convert_batch was called, nobody called stop() after
\* that, and the batch went through every file with a success among them
C22_Witness ==
    /\ BatchReturned
    /\ bhist.flagAtCall
    /\ bhist.stops = 0
    /\ success + failed = Len(batch.files)
    /\ success > 0

\* stop() came while the batch loop was between two files: file atStop.bidx - 1
\* was accounted for and the stop test for file atStop.bidx was not yet made
StoppedBetweenFiles ==
    /\ bhist.stops > 0
    /\ bhist.atStop.bpc = "check"
    /\ bhist.atStop.bidx <= Len(batch.files)

\* C23: if the cancellation flag is set after file k of a batch has completed
\* and before file k+1 starts, no later file gets a position event, a probe, a
\* sequence number or a process, and convert_batch returns without raising,
\* with total the number of requested files and success and failed counting
\* only files 1..k.
C23_CancelBetweenFiles ==
    StoppedBetweenFiles =>
        /\ bpc \in {"check", "done"}
        /\ cpc = "idle"
        /\ bidx = bhist.atStop.bidx
        /\ bhist.positions = bhist.atStop.positions
        /\ cur[1] = bhist.atStop.cur
        /\ success = bhist.atStop.success
        /\ failed = bhist.atStop.failed
        /\ success + failed = bidx - 1
        /\ bpc = "done" =>
              /\ bret = "result"
              /\ BatchResult.total = Len(batch.files)
              /\ BatchResult.success + BatchResult.failed = bidx - 1

\* stop() came after the first of two files had succeeded, and the batch
\* returned with that one success
C23_Witness ==
    /\ StoppedBetweenFiles
    /\ BatchReturned
    /\ bhist.atStop.bidx = 2
    /\ Len(batch.files) = 2
    /\ success = 1
    /\ failed = 0

\* C24: for every file of a batch whose session ends in an outcome other than
\* success, failed is incremented by one and one (file, reason) pair is
\* appended to failed_files: failed equals the length of failed_files and every
\* entry is a pair of a file of the batch and a reason.
C24_FailuresPaired ==
    /\ failed = Len(failedFiles)
    /\ \A i \in 1..Len(failedFiles) :
          /\ Len(failedFiles[i]) = 2
          /\ \E j \in 1..Len(batch.files) : failedFiles[i][1] = batch.files[j]

\* the files of the batch gone through whose convert() returned True
Succeeded == {i \in 1..Len(bhist.outcomes) : bhist.outcomes[i].ret = "True"}

\* C25: convert_batch deletes a source file only when delete_original is set and
\* that file's session ended in success; the source of a failed, timed out or
\* cancelled session is never deleted; and a deletion that fails leaves the
\* file counted as a success and not as a failure.
C25_DeletesOnlyAfterSuccess ==
    /\ \A f \in DOMAIN bhist.sources :
          (bhist.sources[f].exists /\ ~sources[f].exists) =>
              /\ batch.delete
              /\ \E i \in Succeeded : batch.files[i] = f
    /\ success = Cardinality(Succeeded)
    /\ failed = Len(bhist.outcomes) - Cardinality(Succeeded)

\* with delete_original set, one source was deleted after its success, the
\* unlink of another failed after its success, and both count as successes
C25_Witness ==
    /\ BatchReturned
    /\ batch.delete
    /\ success = 2
    /\ failed = 0
    /\ \E i, j \in Succeeded :
          /\ bhist.outcomes[i].unlink = "ok"
          /\ bhist.sources[batch.files[i]].exists
          /\ ~sources[batch.files[i]].exists
          /\ bhist.outcomes[j].unlink = "PermissionError"
          /\ sources[batch.files[j]].exists

\* the files gone through whose convert() ended by raising
Raised == {i \in 1..Len(bhist.outcomes) : bhist.outcomes[i].ret \notin {"True", "False"}}

\* C26: an exception raised while one file of a batch is converted (missing
\* input, launch error, timeout, exception of the file-level progress sink)
\* never leaves convert_batch: it is recorded as that file's failure, paired
\* with the exception, and, with no cancellation, every later file is still
\* gone through before convert_batch returns.
C26_FileErrorsStayInBatch ==
    /\ \A i \in Raised :
          \E j \in 1..Len(failedFiles) :
              failedFiles[j] = <<batch.files[i], bhist.outcomes[i].ret>>
    /\ failed >= Cardinality(Raised)
    /\ (bpc = "done" /\ bret # "result") =>
          \/ bidx = 0
          \/ /\ bret = "SinkError"
             /\ Len(bhist.positions) = Len(bhist.outcomes) + 1
    /\ (BatchReturned /\ ~stopEvent) => Len(bhist.outcomes) = Len(batch.files)

\* the first file's convert() raised, the second file was converted with
\* success, and convert_batch returned both in its result
C26_Witness ==
    /\ BatchReturned
    /\ Len(batch.files) = 2
    /\ 1 \in Raised
    /\ bhist.outcomes[2].ret = "True"
    /\ success = 1
    /\ failed = 1

\* the files gone through whose input existed and whose convert() raised
\* FileNotFoundError: Popen did not find the transcoder binary
LaunchFailed ==
    {i \in 1..Len(bhist.outcomes) :
        /\ bhist.outcomes[i].ret = "FileNotFoundError"
        /\ bhist.sources[batch.files[i]].exists}

\* C27: when the transcoder binary is missing, convert_batch starts no
\* conversion session: the condition is found once before the first file and
\* no launch of the transcoder is attempted for any file.
C27_NoLaunchWithoutBinary == LaunchFailed = {}

\* C28: when the -version check fails (binary missing, non-zero exit, timeout),
\* no encoder-list query and no driver query is started by any probe, every
\* probe answers unavailable, detect_available_encoders() returns exactly
\* [libx264] (get_best_encoder() libx264), and the check has run once.
C28_FailedVersionCheckShortCircuits ==
    ffmpegAvailable = "False" =>
        /\ dhist.failedVersion = 1
        /\ ~dhist.queriedAfterFail
        /\ encoders = <<>>
        /\ availableEncoders.set => availableEncoders.list = <<"libx264">>
        /\ dresult.kind = "list" => dresult.list = <<"libx264">>
        /\ dresult.kind = "name" => dresult.name = "libx264"

\* the host's ffmpeg lists encoders, the -version check failed, and a second
\* detect_available_encoders() has returned
C28_Witness ==
    /\ ffmpegAvailable = "False"
    /\ hostEncoders # {}
    /\ dcalls >= 2
    /\ dstate = "done"
    /\ dresult.kind = "list"
    /\ dresult.list = <<"libx264">>

\* the driver query ended normally with a version that parses as major.minor
\* and is at least 570.0
DriverRecentEnough(o) ==
    /\ o.kind = "ok"
    /\ LET m == DriverMatch(Strip(o.out)) IN
           /\ m.matched
           /\ \/ m.major > MinDriverMajor
              \/ m.major = MinDriverMajor /\ m.minor >= 0

\* C29: h264_nvenc and hevc_nvenc are in the result only if the name is in the
\* transcoder's encoder list and the driver query succeeded with a version
\* whose major.minor is at least 570.0: an NVENC encoder is unavailable when the
\* driver is older, when the query fails and when its version cannot be parsed.
C29_NvencNeedsRecentDriver ==
    /\ dhist.driver # NoDriver => DriverRecentEnough(dhist.driver)
    /\ \A i \in 1..Len(encoders) :
          encoders[i] \in NvencNames => InStdout(encoders[i], hostEncoders)

\* the position of the first x in l, 0 when there is none
FirstIndex(l, x) ==
    IF \E i \in 1..Len(l) : l[i] = x
    THEN CHOOSE i \in 1..Len(l) : l[i] = x /\ \A j \in 1..(i - 1) : l[j] # x
    ELSE 0

\* the flag f is in l, followed by the value v
HasOption(l, f, v) == \E i \in 1..(Len(l) - 1) : l[i] = f /\ l[i + 1] = v

HardwareInitFlags ==
    {"-hwaccel", "-hwaccel_output_format", "-init_hw_device", "-filter_hw_device"}

\* the hardware-initialisation flags in l, each with its value
HardwareInit(l) ==
    {<<l[i], l[i + 1]>> : i \in {j \in 1..(Len(l) - 1) : l[j] \in HardwareInitFlags}}

\* C30: in the list built by _build_ffmpeg_command the thread-count flag, -y
\* and every hardware-initialisation flag come before -i; the hardware flags are
\* exactly those of the encoder's vendor family (cuda for the nvenc encoders,
\* qsv for the qsv encoders) and there is none for libx264, libx265 or another
\* encoder; the output path is the last element.
C30_FlagOrder ==
    \A b \in chist.builds :
        LET l == b.command
            input == FirstIndex(l, "-i")
            e == b.request.encoder
        IN  /\ input > 0
            /\ l[input + 1] = b.request.input
            /\ FirstIndex(l, "-threads") \in 1..(input - 1)
            /\ HasOption(l, "-threads", StrOfInt(b.request.c.threads))
            /\ FirstIndex(l, "-y") \in 1..(input - 1)
            /\ \A i \in 1..Len(l) : l[i] \in HardwareInitFlags => i < input
            /\ HardwareInit(l) =
                  IF e \in {"h264_nvenc", "hevc_nvenc"}
                  THEN {<<"-hwaccel", "cuda">>, <<"-hwaccel_output_format", "cuda">>}
                  ELSE IF e \in {"h264_qsv", "hevc_qsv"}
                  THEN {<<"-init_hw_device", "qsv=hw">>, <<"-filter_hw_device", "hw">>,
                        <<"-hwaccel", "qsv">>, <<"-hwaccel_output_format", "qsv">>}
                  ELSE {}
            /\ l[Len(l)] = b.request.output

\* a list was built for hevc_nvenc, with its cuda flags before -i, and one for
\* libx265
C30_Witness ==
    \E b1, b2 \in chist.builds :
        /\ b1.request.encoder = "hevc_nvenc"
        /\ HasOption(b1.command, "-hwaccel", "cuda")
        /\ FirstIndex(b1.command, "-hwaccel") < FirstIndex(b1.command, "-i")
        /\ b2.request.encoder = "libx265"
        /\ HardwareInit(b2.command) = {}

\* the scaling filter the vendor of encoder e has, for a target of w by h
VendorScale(e, w, h) ==
    IF e \in {"h264_nvenc", "hevc_nvenc"}
    THEN "scale_cuda=" \o StrOfInt(w) \o ":" \o StrOfInt(h)
    ELSE IF e \in {"h264_qsv", "hevc_qsv"}
    THEN "scale_qsv=w=" \o StrOfInt(w) \o ":h=" \o StrOfInt(h)
    ELSE "scale=" \o StrOfInt(w) \o ":" \o StrOfInt(h)

\* C31: the list built by _build_ffmpeg_command holds the scaling filter of the
\* encoder's vendor (scale_cuda for nvenc, scale_qsv for qsv, scale otherwise)
\* with the target width and height, and holds no scaling filter when the
\* target is 0 by 0 (keep the source resolution).
C31_ScaleFilter ==
    \A b \in chist.builds :
        LET c == b.request.c IN
            IF c.width = 0 /\ c.height = 0
            THEN Count(b.command, "-vf") = 0
            ELSE /\ Count(b.command, "-vf") = 1
                 /\ HasOption(b.command, "-vf",
                              VendorScale(b.request.encoder, c.width, c.height))

\* communicate() has returned and convert() ends on the returncode test
Finalizing == cpc = "communicate" /\ cpc' = "done"

\* C32: when the process has exited and communicate() has returned the rest of
\* its output, convert() returns True and leaves the output file as it is if
\* the exit status is 0, and otherwise returns False with _last_error holding
\* the text read from stderr and no file at the output path.
C32_ExitStatusDecides ==
    [][Finalizing =>
          IF proc.rc = 0
          THEN /\ cret' = "True"
               /\ outputs' = outputs
               /\ FileAt(creq.output).kind = "encoded"
          ELSE /\ cret' = "False"
               /\ lastError' = "stderr"
               /\ creq.output \in DOMAIN outputs'
                     => outputs'[creq.output].kind = "absent"]_vars

\* a transcoder that had written part of its output exited with a non-zero
\* status and convert() returned False
C32_Witness ==
    /\ ConvertEnded
    /\ cret = "False"
    /\ lastError = "stderr"
    /\ proc.state = "dead"
    /\ proc.rc # 0
    /\ creq.output \in DOMAIN outputs
    /\ outputs[creq.output].kind = "absent"

\* the ffprobe run of the convert() call in progress (or just ended) failed
ProbeFailed == rhist.probe = "fails"

\* C33: after a failed ffprobe run the call goes on with duration, width and
\* height 0: it does not take the copy path, it reaches subprocess.Popen for
\* the transcoder before it ends, and none of its progress events carries a
\* percentage.
C33_ProbeFailureIsNotFatal ==
    ProbeFailed =>
        /\ info = NoInfo
        /\ ~rhist.sameRes
        /\ cpc \notin {"copy", "copy_file_cb", "copy_cb"}
        /\ ConvertEnded => rhist.launches = 1 \/ caught = "FileNotFoundError"
        /\ \A k \in DOMAIN rhist.events : rhist.events[k].progress.percent = NoPercent

\* a call whose probe failed launched the transcoder, delivered a progress
\* event and returned True
C33_Witness ==
    /\ ProbeFailed
    /\ ConvertEnded
    /\ cret = "True"
    /\ rhist.launches = 1
    /\ rhist.events # <<>>

\* the events of the read loop that reached the sink s, in the order of arrival
LineEventsTo(s) == SelectSeq(rhist.events, LAMBDA e : e.sink = s /\ e.progress.raw)

\* C34: in a batch with a progress_callback the position events carry 0, 1,
\* 2, ... with none repeated or skipped; the position event of a file is
\* delivered before its convert() is entered and before any progress event of
\* it; a position event is delivered only while no convert() is in progress,
\* so after every progress event of the file before; and the progress events
\* of one convert() reach the sink in the order of the lines the process wrote
\* (their time values grow as the lines' do).
C34_EventOrder ==
    /\ [](\A k \in DOMAIN bhist.positions : bhist.positions[k] = k - 1)
    /\ [](batch.cb /\ bpc \in {"file", "convert"} => Len(bhist.positions) = bidx)
    /\ [][Len(rhist.events') > Len(rhist.events) /\ bpc # "idle" =>
              /\ bpc = "convert"
              /\ batch.cb => Len(bhist.positions) = bidx
              /\ bhist.positions' = bhist.positions]_vars
    /\ [][Len(bhist.positions') > Len(bhist.positions) =>
              /\ cpc = "idle"
              /\ rhist.events' = rhist.events]_vars
    /\ [](\A j, k \in DOMAIN LineEventsTo("file") :
              j < k => LineEventsTo("file")[j].progress.time
                         < LineEventsTo("file")[k].progress.time)

\* the second file of a batch has delivered two progress events of its
\* transcoder, after both position events
C34_Witness ==
    /\ bpc = "convert"
    /\ bidx = 2
    /\ bhist.positions = <<0, 1>>
    /\ Len(LineEventsTo("file")) = 2

\* what _last_error holds when the last convert() to assign it did not fail:
\* None (lines 313, 344) or the marker of the copy path (line 317)
NoFailureText == {"None", "SKIPPED_SAME_RESOLUTION"}

\* C35: after convert_batch returned a result with failed > 0, get_last_error()
\* returns the diagnostic text of a failed file (the most recent one), also
\* when later files of the batch succeeded.
C35_LastErrorOfLastFailure ==
    (BatchReturned /\ failed > 0) => lastError \notin NoFailureText

\* the files whose iteration went past the stop test at the loop head
Started ==
    IF bpc \in {"position", "file", "convert"} THEN bidx
    ELSE IF bidx > 0 THEN bidx - 1 ELSE 0

\* C36: during a convert_batch run success + failed never exceeds the number of
\* files whose iteration has started; the returned result has total equal to
\* the length of the input list and success + failed <= total, with equality
\* when stop() was not called during the batch.
C36_CountersBounded ==
    /\ bpc # "idle" => success + failed <= Started
    /\ BatchReturned =>
          /\ BatchResult.total = Len(batch.files)
          /\ BatchResult.success + BatchResult.failed <= BatchResult.total
          /\ bhist.stops = 0 =>
                BatchResult.success + BatchResult.failed = BatchResult.total

\* a batch of two files that nobody stopped returned with one file converted
\* and one failed
C36_Witness ==
    /\ BatchReturned
    /\ bhist.stops = 0
    /\ BatchResult.total = 2
    /\ BatchResult.success = 1
    /\ BatchResult.failed = 1

\* C37: within one convert_batch run every attempted file gets an output path
\* of its own and the numbers in the names grow strictly in input order; every
\* attempted file, converted or failed, has taken a number, and the manager's
\* next number lies above all of them.
C37_DistinctOutputPaths ==
    bpc # "idle" =>
        /\ \A j, k \in DOMAIN bhist.allocated :
              j < k => /\ bhist.allocated[j].seq < bhist.allocated[k].seq
                       /\ bhist.allocated[j].path # bhist.allocated[k].path
        /\ \A k \in DOMAIN bhist.allocated : bhist.allocated[k].seq < cur[1]
        /\ Len(bhist.allocated) = Len(bhist.outcomes) + (IF bpc = "convert" THEN 1 ELSE 0)

\* a batch whose first file failed and whose second file was converted: the
\* second output carries the number after the failed file's
C37_Witness ==
    /\ BatchReturned
    /\ Len(bhist.outcomes) = 2
    /\ bhist.outcomes[1].ret # "True"
    /\ bhist.outcomes[2].ret = "True"
    /\ bhist.allocated[2].seq = bhist.allocated[1].seq + 1
    /\ FileAt(bhist.allocated[2].path).kind # "absent"

\* the stop button was pressed after start_conversion and before the worker
\* ran reset_stop()
StoppedBeforeReset == bpc \notin {"idle", "started"} /\ bhist.flagAtCall

\* C38: a stop request made after start_conversion takes effect: when it came
\* before the worker ran the reset at the top of convert_batch no file of the
\* batch is converted, and when it came later no file after the one in
\* progress at that moment is converted.
C38_StopTakesEffect ==
    /\ StoppedBeforeReset =>
          \A k \in DOMAIN bhist.outcomes : bhist.outcomes[k].ret # "True"
    /\ (bpc # "idle" /\ bhist.stops > 0) =>
          \A k \in DOMAIN bhist.outcomes :
              k > bhist.atStop.bidx => bhist.outcomes[k].ret # "True"

\* the convert() call of the current file got as far as a transcoder launch or
\* a copy, or ended in an exception
ConversionBegun == rhist.launches > 0 \/ rhist.sameRes \/ cret \notin {"True", "False"}

\* C39: once stop() was called during a batch no transcoder process is started
\* any more, and a file is added to the failed count only if a transcoder
\* launch or a copy was attempted for it or its processing raised an exception.
C39_NoWorkAfterStop ==
    /\ [][(bpc # "idle" /\ bhist.stops > 0 /\ stopEvent) =>
              rhist.launches' <= rhist.launches]_vars
    /\ [][failed' > failed => ConversionBegun]_vars

====
